---- MODULE Spec2Model ----
(***************************************************************************)
(* Classify -> assess -> route pipeline of reg_agent                       *)
(* (src/src/agents/classify/pipeline.py, src/src/agents/route/router.py,   *)
(* src/src/database/client.py, src/src/api/main.py).                       *)
(*                                                                         *)
(* The store is three tables (sequences of rows in insertion order).  Each *)
(* caller is a process whose pc names the line of the pipeline it is about *)
(* to execute; every store call and every external call is one step, that  *)
(* either returns or raises.  Confidence is counted in hundredths.         *)
(***************************************************************************)
EXTENDS Integers, Sequences, FiniteSets, TLC

\* ------------------------------------------------------------------ bounds
NumProcs == 2
MaxCalls == 3
MaxConcCalls == 2
MaxGaps == 2

Procs == 1..NumProcs

\* --------------------------------------------------------- program constants
GAP_ANALYSIS_RELEVANCE_THRESHOLD == 3
GAP_ANALYSIS_CONFIDENCE_THRESHOLD == 70

RelevanceScore == 0..5
GapSeverity == {"low", "medium", "high", "critical"}
TaskPriority == {"low", "medium", "high", "critical"}
BSAPillar == {"internal_controls", "bsa_officer", "training",
              "independent_testing", "customer_due_diligence"}

CONTROLS ==
  << [id |-> "IC-01", name |-> "Transaction Monitoring Program",
      pillar |-> "internal_controls",      typical_owners |-> <<"AML Operations", "Risk Management">>],
     [id |-> "IC-02", name |-> "Suspicious Activity Escalation Procedures",
      pillar |-> "internal_controls",      typical_owners |-> <<"AML Operations", "BSA Officer">>],
     [id |-> "IC-03", name |-> "Sanctions Screening Program",
      pillar |-> "internal_controls",      typical_owners |-> <<"AML Operations", "Compliance Training">>],
     [id |-> "IC-04", name |-> "Risk Assessment Methodology",
      pillar |-> "internal_controls",      typical_owners |-> <<"Risk Management", "BSA Officer">>],
     [id |-> "BSA-01", name |-> "BSA Officer Designation & Authority",
      pillar |-> "bsa_officer",            typical_owners |-> <<"BSA Officer", "Legal & Regulatory Affairs">>],
     [id |-> "BSA-02", name |-> "Board Reporting & Oversight",
      pillar |-> "bsa_officer",            typical_owners |-> <<"BSA Officer", "Internal Audit">>],
     [id |-> "BSA-03", name |-> "Regulatory Examination Management",
      pillar |-> "bsa_officer",            typical_owners |-> <<"BSA Officer", "Legal & Regulatory Affairs">>],
     [id |-> "BSA-04", name |-> "Program Documentation & Updates",
      pillar |-> "bsa_officer",            typical_owners |-> <<"BSA Officer", "Compliance Training">>],
     [id |-> "TR-01", name |-> "New Employee BSA Training",
      pillar |-> "training",               typical_owners |-> <<"Compliance Training", "Human Resources">>],
     [id |-> "TR-02", name |-> "Role-Based AML Training",
      pillar |-> "training",               typical_owners |-> <<"Compliance Training", "AML Operations">>],
     [id |-> "TR-03", name |-> "Annual Refresher Training",
      pillar |-> "training",               typical_owners |-> <<"Compliance Training">>],
     [id |-> "TR-04", name |-> "Training Records & Tracking",
      pillar |-> "training",               typical_owners |-> <<"Compliance Training", "Human Resources">>],
     [id |-> "IT-01", name |-> "Annual Independent Audit",
      pillar |-> "independent_testing",    typical_owners |-> <<"Internal Audit">>],
     [id |-> "IT-02", name |-> "Transaction Testing Sampling",
      pillar |-> "independent_testing",    typical_owners |-> <<"Internal Audit", "AML Operations">>],
     [id |-> "IT-03", name |-> "Finding Remediation Tracking",
      pillar |-> "independent_testing",    typical_owners |-> <<"Internal Audit", "BSA Officer">>],
     [id |-> "IT-04", name |-> "Model Validation",
      pillar |-> "independent_testing",    typical_owners |-> <<"Internal Audit", "Risk Management">>],
     [id |-> "CDD-01", name |-> "Customer Identification Program (CIP)",
      pillar |-> "customer_due_diligence", typical_owners |-> <<"AML Operations", "Customer Onboarding">>],
     [id |-> "CDD-02", name |-> "Beneficial Ownership Identification",
      pillar |-> "customer_due_diligence", typical_owners |-> <<"AML Operations", "Customer Onboarding">>],
     [id |-> "CDD-03", name |-> "Enhanced Due Diligence (EDD)",
      pillar |-> "customer_due_diligence", typical_owners |-> <<"AML Operations", "Risk Management">>],
     [id |-> "CDD-04", name |-> "Ongoing Customer Monitoring",
      pillar |-> "customer_due_diligence", typical_owners |-> <<"AML Operations", "Risk Management">>] >>

\* ------------------------------------------------- outputs of the externals
\* What the Classifier can answer: any score of the schema's range, a
\* confidence around the threshold, and pillar strings the schema does not
\* restrict to the BSAPillar enumeration.
ConfidenceOutputs == {69, 70, 99}
PillarOutputs == { <<"training">>, <<"kyc_program">> }
ClassificationResult ==
  [relevance_score : RelevanceScore, confidence : ConfidenceOutputs,
   bsa_pillars : PillarOutputs]

\* What the Gap Analyzer can answer: overall_severity is a free string, and
\* affected_controls a list of ControlGap whose control_id is a free string.
SeverityOutputs == {"low", "critical", "Critical"}
ControlIdOutputs == {"IC-01", "XX-99"}

ControlGap(cid) ==
  [control_id |-> cid, gap_description |-> "no written policy",
   remediation_action |-> "write the policy", effort_level |-> "low"]

SeqsUpTo(S, n) == UNION { [1..k -> S] : k \in 0..n }

GapAnalysisResult ==
  [overall_severity : SeverityOutputs,
   affected_controls : { [i \in DOMAIN ids |-> ControlGap(ids[i])] :
                           ids \in SeqsUpTo(ControlIdOutputs, MaxGaps) }]

\* ------------------------------------------------------------------- state
VARIABLES classifications, gap_analyses, tasks, proc, calls, overlap

vars == <<classifications, gap_analyses, tasks, proc, calls, overlap>>
store == <<classifications, gap_analyses, tasks>>

NoResult == [relevance_score |-> 0, confidence |-> 0, bsa_pillars |-> <<>>]
NoGapResult == [overall_severity |-> "", affected_controls |-> <<>>]

IdleProc ==
  [pc |-> "idle", op |-> "none", regulation_id |-> "", relevance_score |-> 0,
   result |-> NoResult, gap_result |-> NoGapResult, gap_analysis_id |-> 0,
   gap_severity |-> "", affected_controls |-> <<>>, pending |-> <<>>,
   ret_cas |-> "none", ret_tga |-> "none", ret_ttg |-> "none", http |-> "none",
   why_tga |-> "none", why_ttg |-> "none", raised |-> "none",
   invoked |-> {}, wrote |-> {},
   rows |-> <<>>, succeeded |-> 0, failed |-> 0,
   dataset |-> <<>>, regulations |-> {}, remaining |-> <<>>,
   skipped |-> <<>>, documents |-> <<>>, test_case_map |-> <<>>,
   results |-> <<>>, futures |-> {}, completed |-> <<>>, batch_results |-> <<>>,
   predictions |-> <<>>, valid_cases |-> <<>>, report |-> <<>>,
   utcnow |-> 0, ret |-> <<>>, task_id |-> 0, update |-> <<>>,
   control_id |-> "", expected |-> <<>>, test_cases |-> <<>>]

Init ==
  /\ classifications = <<>>
  /\ gap_analyses = <<>>
  /\ tasks = <<>>
  /\ proc = [p \in Procs |-> IdleProc]
  /\ calls = 0
  /\ overlap = {}

\* ------------------------------------------------------- store operations
\* Faulty variant: the query also filters on the relevance score.
get_classification_relevant(regulation_id) ==
  LET data == SelectSeq(classifications,
                LAMBDA r : r.regulation_id = regulation_id /\ r.relevance_score >= 3)
  IN  IF data # <<>> THEN <<data[1]>> ELSE <<>>

get_classification(regulation_id) ==
  LET data == SelectSeq(classifications, LAMBDA r : r.regulation_id = regulation_id)
  IN  IF data # <<>> THEN <<data[1]>> ELSE <<>>

\* Faulty variant: the query misses a GapAnalysis with no affected control.
get_gap_analysis_with_controls(regulation_id) ==
  LET data == SelectSeq(gap_analyses,
                LAMBDA r : r.regulation_id = regulation_id /\ r.affected_controls # <<>>)
  IN  IF data # <<>> THEN <<data[1]>> ELSE <<>>

get_gap_analysis(regulation_id) ==
  LET data == SelectSeq(gap_analyses, LAMBDA r : r.regulation_id = regulation_id)
  IN  IF data # <<>> THEN <<data[1]>> ELSE <<>>

get_gap_analysis_by_id(gap_analysis_id) ==
  LET data == SelectSeq(gap_analyses, LAMBDA r : r.id = gap_analysis_id)
  IN  IF data # <<>> THEN <<data[1]>> ELSE <<>>

\* Faulty variant: the query returns the critical tasks only.
get_critical_tasks_by_gap_analysis(gap_analysis_id) ==
  SelectSeq(tasks, LAMBDA t : t.gap_analysis_id = gap_analysis_id
                              /\ t.priority = "critical")

get_tasks_by_gap_analysis(gap_analysis_id) ==
  SelectSeq(tasks, LAMBDA t : t.gap_analysis_id = gap_analysis_id)

\* Faulty variant: the query has no threshold filter.
get_classifications_lacking_gap_analysis(limit) ==
  LET data == SubSeq(classifications, 1,
                     IF Len(classifications) < limit THEN Len(classifications) ELSE limit)
  IN  SelectSeq(data, LAMBDA row : get_gap_analysis(row.regulation_id) = <<>>)

\* The thresholds are the defaults of the signature (3 and 0.7); the limit cuts
\* the rows of the query before the rows with a GapAnalysis are dropped.
get_classifications_needing_gap_analysis(limit) ==
  LET relevance_threshold == 3
      confidence_threshold == 70
      hits == SelectSeq(classifications,
                LAMBDA row : /\ row.relevance_score >= relevance_threshold
                             /\ row.confidence >= confidence_threshold)
      data == SubSeq(hits, 1, IF Len(hits) < limit THEN Len(hits) ELSE limit)
  IN  SelectSeq(data, LAMBDA row : get_gap_analysis(row.regulation_id) = <<>>)

\* The title column of the document's row in the regulations table, which
\* every caller passes on as title (main.py:412, 440, 501, 565).
RegulationTitle(regulation_id) == "Rule of " \o regulation_id

\* The table after the insert; the store assigns the row's id.
create_task(task) == Append(tasks, [id |-> Len(tasks) + 1] @@ task)

\* ------------------------------------------------------------ task router
\* str.lower(), character by character, on ASCII text.
UpperLetters == "ABCDEFGHIJKLMNOPQRSTUVWXYZ"
LowerLetters == "abcdefghijklmnopqrstuvwxyz"

LowerChar(c) ==
  IF \E i \in 1..26 : SubSeq(UpperLetters, i, i) = c
    THEN LET i == CHOOSE k \in 1..26 : SubSeq(UpperLetters, k, k) = c
         IN  SubSeq(LowerLetters, i, i)
    ELSE c

UpperChar(c) ==
  IF \E i \in 1..26 : SubSeq(LowerLetters, i, i) = c
    THEN LET i == CHOOSE k \in 1..26 : SubSeq(LowerLetters, k, k) = c
         IN  SubSeq(UpperLetters, i, i)
    ELSE c

RECURSIVE Lower(_)
Lower(s) ==
  IF s = "" THEN ""
  ELSE LowerChar(SubSeq(s, 1, 1)) \o Lower(SubSeq(s, 2, Len(s)))

\* Faulty variant: the lookup is made without lower().
severity_to_priority_exact(severity) ==
  IF severity \in TaskPriority THEN severity ELSE "medium"

severity_to_priority(severity) ==
  IF Lower(severity) \in TaskPriority THEN Lower(severity) ELSE "medium"

\* Faulty variant: an unknown id resolves to the first control of the catalog.
get_control_by_id_or_first(control_id) ==
  LET found == SelectSeq(CONTROLS, LAMBDA c : c.id = control_id)
  IN  IF found # <<>> THEN <<found[1]>> ELSE <<CONTROLS[1]>>

get_control_by_id(control_id) ==
  LET found == SelectSeq(CONTROLS, LAMBDA c : c.id = control_id)
  IN  IF found # <<>> THEN <<found[1]>> ELSE <<>>

VALID_TEAMS ==
  {"AML Operations", "Compliance Training", "BSA Officer", "Internal Audit",
   "Legal & Regulatory Affairs", "Risk Management"}

\* Faulty variant: the owner is the last entry of the list.
get_primary_owner_last(control_id) ==
  LET control == get_control_by_id(control_id)
  IN  IF control # <<>> /\ control[1].typical_owners # <<>>
        THEN control[1].typical_owners[Len(control[1].typical_owners)]
        ELSE "BSA Officer"

get_primary_owner(control_id) ==
  LET control == get_control_by_id(control_id)
  IN  IF control # <<>> /\ control[1].typical_owners # <<>>
        THEN control[1].typical_owners[1]
        ELSE "BSA Officer"

DictGet(d, k, default) == IF k \in DOMAIN d THEN d[k] ELSE default

PRIORITY_DUE_DAYS == [critical |-> 7, high |-> 14, medium |-> 30, low |-> 60]

\* Faulty variant: the offset does not depend on the priority.
calculate_due_date_flat(priority, now) == now + 30

\* Days; now is the reading of datetime.utcnow().
calculate_due_date(priority, now) ==
  now + DictGet(PRIORITY_DUE_DAYS, priority, 30)

\* str.replace(old, new) for a one-character old.
RECURSIVE Replace(_, _, _)
Replace(s, old, new) ==
  IF s = "" THEN ""
  ELSE (IF SubSeq(s, 1, 1) = old THEN new ELSE SubSeq(s, 1, 1))
         \o Replace(SubSeq(s, 2, Len(s)), old, new)

IsLetter(c) ==
  \E i \in 1..26 : SubSeq(UpperLetters, i, i) = c \/ SubSeq(LowerLetters, i, i) = c

\* str.title(): a letter that follows a letter is lowered, any other letter is
\* raised.
RECURSIVE TitleFrom(_, _)
TitleFrom(s, after_letter) ==
  IF s = "" THEN ""
  ELSE LET c == SubSeq(s, 1, 1)
       IN  (IF after_letter THEN LowerChar(c) ELSE UpperChar(c))
             \o TitleFrom(SubSeq(s, 2, Len(s)), IsLetter(c))

Title(s) == TitleFrom(s, FALSE)

\* "\n".join(parts)
RECURSIVE Join(_)
Join(parts) ==
  IF parts = <<>> THEN ""
  ELSE IF Len(parts) = 1 THEN parts[1]
  ELSE parts[1] \o "\n" \o Join(Tail(parts))

\* router.py:88-102, the title and the description of the task of one gap.
task_title(control_gap, control) ==
  LET gap_type == DictGet(control_gap, "gap_type", "unknown")
  IN  "[" \o control.id \o "] Address " \o gap_type \o " gap in " \o control.name

task_description(control_gap, control, regulation_title) ==
  LET gap_type == DictGet(control_gap, "gap_type", "unknown")
      recommendation == DictGet(control_gap, "recommendation", "")
      description_parts ==
        << "Regulation: " \o regulation_title,
           "Control: " \o control.name,
           "Pillar: " \o Title(Replace(control.pillar, "_", " ")),
           "Gap Type: " \o gap_type >>
  IN  Join(IF recommendation # ""
             THEN Append(description_parts, "Recommendation: " \o recommendation)
             ELSE description_parts)

\* router.py:78-117, the loop over the gaps; priority and due_date were
\* computed once before it (75-76).
RECURSIVE tasks_of_gaps(_, _, _, _, _, _)
tasks_of_gaps(regulation_id, gap_analysis_id, priority, due_date, affected_controls, regulation_title) ==
  IF affected_controls = <<>> THEN <<>>
  ELSE
    LET control_gap == Head(affected_controls)
        control_id == DictGet(control_gap, "control_id", "")
        rest == tasks_of_gaps(regulation_id, gap_analysis_id, priority, due_date,
                              Tail(affected_controls), regulation_title)
    IN  IF control_id = "" \/ get_control_by_id(control_id) = <<>>
          THEN rest
          ELSE << [regulation_id |-> regulation_id,
                   gap_analysis_id |-> gap_analysis_id,
                   control_id |-> control_id,
                   title |-> task_title(control_gap, get_control_by_id(control_id)[1]),
                   description |-> task_description(control_gap,
                                     get_control_by_id(control_id)[1], regulation_title),
                   assigned_team |-> get_primary_owner(control_id),
                   priority |-> priority,
                   status |-> "pending",
                   due_date |-> due_date] >> \o rest

generate_tasks_from_gap_analysis(regulation_id, gap_analysis_id, gap_severity, affected_controls, regulation_title, now) ==
  LET priority == severity_to_priority(gap_severity)
      due_date == calculate_due_date(priority, now)
  IN  tasks_of_gaps(regulation_id, gap_analysis_id, priority, due_date,
                    affected_controls, regulation_title)

\* ------------------------------------------------------- call bookkeeping
Upd(p, r) == proc' = [proc EXCEPT ![p] = r]

\* The call is over: its locals are gone, what it returned stays readable.
Finish(r) ==
  [r EXCEPT !.pc = "idle", !.result = NoResult, !.gap_result = NoGapResult,
            !.gap_severity = "", !.affected_controls = <<>>, !.pending = <<>>,
            !.rows = <<>>, !.remaining = <<>>, !.test_case_map = <<>>,
            !.results = <<>>, !.futures = {}]

\* An exception leaves the outermost function of the call.
Raise(r, site) == Finish([r EXCEPT !.raised = site])

\* A call of classify_and_store or _trigger_gap_analysis on a document.
OnDocument(r, d) ==
  /\ r.pc # "idle"
  /\ r.op \in {"classify_and_store", "trigger_gap_analysis"}
  /\ r.regulation_id = d

\* overlap records the documents on which such a call began while another
\* one was still running.
Begin(p, r, budget) ==
  /\ proc[p].pc = "idle"
  /\ calls < budget
  /\ calls' = calls + 1
  /\ Upd(p, r)
  /\ overlap' = overlap \cup
       { d \in {r.regulation_id} :
           OnDocument(r, d) /\ \E q \in Procs \ {p} : OnDocument(proc[q], d) }
  /\ UNCHANGED store

At(p, label) == proc[p].pc = label

\* What the call has invoked and which tables it has inserted into.
Invoke(r, what) == [r EXCEPT !.invoked = @ \cup {what}]
Wrote(r, table) == [r EXCEPT !.wrote = @ \cup {table}]

\* ------------------------------------------- _trigger_gap_analysis returns
\* pipeline.py:45-57: classify_and_store ignores the trigger's value and
\* returns True; a direct caller gets the value.
bf_on_row(r) ==
  [r EXCEPT !.pc = "tga_76",
            !.regulation_id = Head(r.rows).regulation_id,
            !.relevance_score = Head(r.rows).relevance_score]

\* main.py:454-461: the row is counted as succeeded or failed, and the loop
\* goes on with the next row or the endpoint answers with the counts.
bf_counts(r, success) ==
  LET r1 == [r EXCEPT !.succeeded = @ + (IF success = "True" THEN 1 ELSE 0),
                      !.failed = @ + (IF success = "True" THEN 0 ELSE 1),
                      !.rows = Tail(@)]
  IN  IF r1.rows = <<>>
        THEN Finish([r1 EXCEPT !.http = "results"])
        ELSE bf_on_row(r1)

tga_returns(r, value, why) ==
  LET r1 == [r EXCEPT !.ret_tga = value, !.why_tga = why]
  IN  CASE r.op = "classify_and_store" -> Finish([r1 EXCEPT !.ret_cas = "True"])
        [] r.op = "backfill_gap_analyses" -> bf_counts(r1, value)
        [] OTHER -> Finish(r1)

\* pipeline.py:108-116: _trigger_gap_analysis ignores the value of
\* _trigger_task_generation and returns True.
ttg_returns(r, value, why) ==
  LET r1 == [r EXCEPT !.ret_ttg = value, !.why_ttg = why]
  IN  IF r.op \in {"classify_and_store", "trigger_gap_analysis",
                    "backfill_gap_analyses"}
        THEN tga_returns(r1, "True", "ok")
        ELSE Finish(r1)

\* pipeline.py:134 is outside the try of _trigger_task_generation: the
\* exception reaches the except of _trigger_gap_analysis (118-120), or the
\* direct caller.
ttg_raises(r, site) ==
  IF r.op \in {"classify_and_store", "trigger_gap_analysis",
                "backfill_gap_analyses"}
    THEN tga_returns(r, "False", "failed")
    ELSE Raise(r, site)

\* ------------------------------------------------------ classify_and_store
\* Faulty variant: the confidence comparison is strict.
passes_gate_strict(result) ==
  /\ result.relevance_score >= GAP_ANALYSIS_RELEVANCE_THRESHOLD
  /\ result.confidence > GAP_ANALYSIS_CONFIDENCE_THRESHOLD

passes_gate(result) ==
  /\ result.relevance_score >= GAP_ANALYSIS_RELEVANCE_THRESHOLD
  /\ result.confidence >= GAP_ANALYSIS_CONFIDENCE_THRESHOLD

classify_and_store(p, d, budget) ==
  Begin(p, [IdleProc EXCEPT !.pc = "cas_19", !.op = "classify_and_store",
                            !.regulation_id = d], budget)

cas_get_classification_raises(p) ==
  /\ At(p, "cas_19")
  /\ Upd(p, Raise(proc[p], "get_classification"))
  /\ UNCHANGED <<store, calls, overlap>>

cas_existing(p) ==
  /\ At(p, "cas_19")
  /\ get_classification(proc[p].regulation_id) # <<>>
  /\ Upd(p, Finish([proc[p] EXCEPT !.ret_cas = "False"]))
  /\ UNCHANGED <<store, calls, overlap>>

cas_not_existing(p) ==
  /\ At(p, "cas_19")
  /\ get_classification(proc[p].regulation_id) = <<>>
  /\ Upd(p, [proc[p] EXCEPT !.pc = "cas_24"])
  /\ UNCHANGED <<store, calls, overlap>>

\* Faulty variant: the classifier's exception is swallowed and False returned.
cas_classify_document_swallowed(p) ==
  /\ At(p, "cas_24")
  /\ Upd(p, Finish([Invoke(proc[p], "classify_document") EXCEPT !.ret_cas = "False"]))
  /\ UNCHANGED <<store, calls, overlap>>

cas_classify_document_raises(p) ==
  /\ At(p, "cas_24")
  /\ Upd(p, Raise(Invoke(proc[p], "classify_document"), "classify_document"))
  /\ UNCHANGED <<store, calls, overlap>>

\* classify_document returns; ClassificationCreate (31-39) converts every
\* pillar with BSAPillar(p), which raises on a string outside the enumeration.
cas_classify_document_returns(p, result) ==
  /\ At(p, "cas_24")
  /\ LET r == Invoke(proc[p], "classify_document")
     IN  IF \E i \in DOMAIN result.bsa_pillars : result.bsa_pillars[i] \notin BSAPillar
           THEN Upd(p, Raise(r, "ClassificationCreate"))
           ELSE Upd(p, [r EXCEPT !.pc = "cas_41", !.result = result])
  /\ UNCHANGED <<store, calls, overlap>>

cas_create_classification_raises(p) ==
  /\ At(p, "cas_41")
  /\ Upd(p, Raise(proc[p], "create_classification"))
  /\ UNCHANGED <<store, calls, overlap>>

cas_create_classification(p) ==
  /\ At(p, "cas_41")
  /\ LET r == proc[p]
     IN  /\ classifications' = Append(classifications,
              [regulation_id |-> r.regulation_id,
               relevance_score |-> r.result.relevance_score,
               confidence |-> r.result.confidence,
               bsa_pillars |-> r.result.bsa_pillars])
         /\ IF passes_gate(r.result)
              THEN Upd(p, [Wrote(Invoke(r, "trigger_gap_analysis"), "classifications")
                             EXCEPT !.pc = "tga_76",
                                    !.relevance_score = r.result.relevance_score])
              ELSE Upd(p, Finish([Wrote(r, "classifications") EXCEPT
                                    !.ret_cas = "True"]))
  /\ UNCHANGED <<gap_analyses, tasks, calls, overlap>>

\* --------------------------------------------------- _trigger_gap_analysis
\* Called directly (the backfill path, main.py:442-452) with the context of a
\* persisted Classification.
trigger_gap_analysis(p, d, budget) ==
  /\ get_classification(d) # <<>>
  /\ Begin(p, [IdleProc EXCEPT !.pc = "tga_76", !.op = "trigger_gap_analysis",
                 !.regulation_id = d,
                 !.relevance_score = get_classification(d)[1].relevance_score],
           budget)

tga_get_gap_analysis_raises(p) ==
  /\ At(p, "tga_76")
  /\ Upd(p, Raise(proc[p], "get_gap_analysis"))
  /\ UNCHANGED <<store, calls, overlap>>

tga_existing(p) ==
  /\ At(p, "tga_76")
  /\ get_gap_analysis(proc[p].regulation_id) # <<>>
  /\ Upd(p, tga_returns(proc[p], "False", "exists"))
  /\ UNCHANGED <<store, calls, overlap>>

\* Faulty variant: the trigger goes on without looking at the existence query.
tga_unchecked(p) ==
  /\ At(p, "tga_76")
  /\ Upd(p, [proc[p] EXCEPT !.pc = "tga_84"])
  /\ UNCHANGED <<store, calls, overlap>>

\* Faulty variant: the trigger applies the relevance threshold of the gate
\* before it goes on.
tga_not_existing_gated(p) ==
  /\ At(p, "tga_76")
  /\ get_gap_analysis(proc[p].regulation_id) = <<>>
  /\ IF proc[p].relevance_score >= GAP_ANALYSIS_RELEVANCE_THRESHOLD
       THEN Upd(p, [proc[p] EXCEPT !.pc = "tga_84"])
       ELSE Upd(p, tga_returns(proc[p], "False", "failed"))
  /\ UNCHANGED <<store, calls, overlap>>

tga_not_existing(p) ==
  /\ At(p, "tga_76")
  /\ get_gap_analysis(proc[p].regulation_id) = <<>>
  /\ Upd(p, [proc[p] EXCEPT !.pc = "tga_84"])
  /\ UNCHANGED <<store, calls, overlap>>

\* Faulty variant: the analyzer's exception is not caught.
tga_analyze_gaps_uncaught(p) ==
  /\ At(p, "tga_84")
  /\ Upd(p, Raise(Invoke(proc[p], "analyze_gaps"), "analyze_gaps"))
  /\ UNCHANGED <<store, calls, overlap>>

tga_analyze_gaps_raises(p) ==
  /\ At(p, "tga_84")
  /\ Upd(p, tga_returns(Invoke(proc[p], "analyze_gaps"), "False", "failed"))
  /\ UNCHANGED <<store, calls, overlap>>

\* Faulty variant: the severity is stored as the analyzer spelled it, without
\* the GapSeverity conversion.
tga_analyze_gaps_returns_unconverted(p, result) ==
  /\ At(p, "tga_84")
  /\ Upd(p, [Invoke(proc[p], "analyze_gaps") EXCEPT !.pc = "tga_105",
                                                     !.gap_result = result])
  /\ UNCHANGED <<store, calls, overlap>>

\* analyze_gaps returns; GapAnalysisCreate (95-103) converts the severity with
\* GapSeverity(...), which raises inside the try on any other string.
tga_analyze_gaps_returns(p, result) ==
  /\ At(p, "tga_84")
  /\ LET r == Invoke(proc[p], "analyze_gaps")
     IN  IF result.overall_severity \notin GapSeverity
           THEN Upd(p, tga_returns(r, "False", "failed"))
           ELSE Upd(p, [r EXCEPT !.pc = "tga_105", !.gap_result = result])
  /\ UNCHANGED <<store, calls, overlap>>

tga_create_gap_analysis_raises(p) ==
  /\ At(p, "tga_105")
  /\ Upd(p, tga_returns(proc[p], "False", "failed"))
  /\ UNCHANGED <<store, calls, overlap>>

tga_create_gap_analysis(p) ==
  /\ At(p, "tga_105")
  /\ LET r == proc[p]
         id == Len(gap_analyses) + 1
     IN  /\ gap_analyses' = Append(gap_analyses,
              [id |-> id, regulation_id |-> r.regulation_id,
               gap_severity |-> r.gap_result.overall_severity,
               affected_controls |-> r.gap_result.affected_controls])
         /\ Upd(p, [Wrote(Invoke(r, "trigger_task_generation"), "gap_analyses")
                      EXCEPT
                      !.pc = "ttg_134", !.gap_analysis_id = id,
                      !.gap_severity = r.gap_result.overall_severity,
                      !.affected_controls = r.gap_result.affected_controls])
  /\ UNCHANGED <<classifications, tasks, calls, overlap>>

\* ------------------------------------------------ _trigger_task_generation
\* Called directly with the id, severity and controls of a persisted
\* GapAnalysis (the arguments _trigger_gap_analysis passes at 108-114).
trigger_task_generation(p, g, budget) ==
  /\ g \in 1..Len(gap_analyses)
  /\ Begin(p, [IdleProc EXCEPT !.pc = "ttg_134", !.op = "trigger_task_generation",
                 !.regulation_id = gap_analyses[g].regulation_id,
                 !.gap_analysis_id = gap_analyses[g].id,
                 !.gap_severity = gap_analyses[g].gap_severity,
                 !.affected_controls = gap_analyses[g].affected_controls],
           budget)

ttg_get_tasks_raises(p) ==
  /\ At(p, "ttg_134")
  /\ Upd(p, ttg_raises(proc[p], "get_tasks_by_gap_analysis"))
  /\ UNCHANGED <<store, calls, overlap>>

ttg_existing(p) ==
  /\ At(p, "ttg_134")
  /\ get_tasks_by_gap_analysis(proc[p].gap_analysis_id) # <<>>
  /\ Upd(p, ttg_returns(proc[p], "False", "exists"))
  /\ UNCHANGED <<store, calls, overlap>>

\* No task exists: the router (142-148) builds the TaskCreate list; an empty
\* list ends the loop at once and the trigger returns True.
ttg_not_existing(p) ==
  /\ At(p, "ttg_134")
  /\ get_tasks_by_gap_analysis(proc[p].gap_analysis_id) = <<>>
  /\ LET r == Invoke(proc[p], "generate_tasks_from_gap_analysis")
         todo == generate_tasks_from_gap_analysis(
                   r.regulation_id, r.gap_analysis_id, r.gap_severity,
                   r.affected_controls, RegulationTitle(r.regulation_id),
                   r.utcnow)
     IN  IF todo = <<>>
           THEN Upd(p, ttg_returns(r, "True", "ok"))
           ELSE Upd(p, [r EXCEPT !.pc = "ttg_151", !.pending = todo])
  /\ UNCHANGED <<store, calls, overlap>>

ttg_create_task_raises(p) ==
  /\ At(p, "ttg_151")
  /\ Upd(p, ttg_returns(proc[p], "False", "failed"))
  /\ UNCHANGED <<store, calls, overlap>>

\* Faulty variant: the insert replaces the table's content by the new task.
ttg_create_task_replacing(p) ==
  /\ At(p, "ttg_151")
  /\ LET r == [Wrote(proc[p], "tasks") EXCEPT !.pending = Tail(@)]
     IN  /\ tasks' = << [id |-> Len(tasks) + 1] @@ Head(proc[p].pending) >>
         /\ IF r.pending = <<>>
              THEN Upd(p, ttg_returns(r, "True", "ok"))
              ELSE Upd(p, r)
  /\ UNCHANGED <<classifications, gap_analyses, calls, overlap>>

ttg_create_task(p) ==
  /\ At(p, "ttg_151")
  /\ LET r == [Wrote(proc[p], "tasks") EXCEPT !.pending = Tail(@)]
     IN  /\ tasks' = create_task(Head(proc[p].pending))
         /\ IF r.pending = <<>>
              THEN Upd(p, ttg_returns(r, "True", "ok"))
              ELSE Upd(p, r)
  /\ UNCHANGED <<classifications, gap_analyses, calls, overlap>>

\* --------------------- POST /api/tasks/generate/{gap_analysis_id} (main.py)
generate_tasks_for_gap_analysis(p, g, budget) ==
  /\ g \in 1..(Len(gap_analyses) + 1)
  /\ Begin(p, [IdleProc EXCEPT !.pc = "gen_541",
                 !.op = "generate_tasks_for_gap_analysis",
                 !.gap_analysis_id = g], budget)

gen_get_gap_analysis_raises(p) ==
  /\ At(p, "gen_541")
  /\ Upd(p, Raise(proc[p], "get_gap_analysis_by_id"))
  /\ UNCHANGED <<store, calls, overlap>>

gen_not_found(p) ==
  /\ At(p, "gen_541")
  /\ get_gap_analysis_by_id(proc[p].gap_analysis_id) = <<>>
  /\ Upd(p, Raise([proc[p] EXCEPT !.http = "404"], "HTTPException"))
  /\ UNCHANGED <<store, calls, overlap>>

gen_found(p) ==
  /\ At(p, "gen_541")
  /\ get_gap_analysis_by_id(proc[p].gap_analysis_id) # <<>>
  /\ LET gap_analysis == get_gap_analysis_by_id(proc[p].gap_analysis_id)[1]
     IN  Upd(p, [proc[p] EXCEPT !.pc = "gen_545",
                   !.regulation_id = gap_analysis.regulation_id,
                   !.gap_severity = gap_analysis.gap_severity,
                   !.affected_controls = gap_analysis.affected_controls])
  /\ UNCHANGED <<store, calls, overlap>>

gen_get_tasks_raises(p) ==
  /\ At(p, "gen_545")
  /\ Upd(p, Raise(proc[p], "get_tasks_by_gap_analysis"))
  /\ UNCHANGED <<store, calls, overlap>>

gen_existing(p) ==
  /\ At(p, "gen_545")
  /\ get_tasks_by_gap_analysis(proc[p].gap_analysis_id) # <<>>
  /\ Upd(p, Finish([proc[p] EXCEPT !.http = "already_exists"]))
  /\ UNCHANGED <<store, calls, overlap>>

gen_not_existing(p) ==
  /\ At(p, "gen_545")
  /\ get_tasks_by_gap_analysis(proc[p].gap_analysis_id) = <<>>
  /\ Upd(p, [proc[p] EXCEPT !.pc = "gen_554"])
  /\ UNCHANGED <<store, calls, overlap>>

gen_get_regulation_raises(p) ==
  /\ At(p, "gen_554")
  /\ Upd(p, Raise(proc[p], "get_regulation"))
  /\ UNCHANGED <<store, calls, overlap>>

\* The regulation is read (documents are never deleted) and the router runs
\* (558-566); with nothing to create the endpoint answers "created" at once.
gen_get_regulation(p) ==
  /\ At(p, "gen_554")
  /\ LET r == Invoke(proc[p], "generate_tasks_from_gap_analysis")
         todo == generate_tasks_from_gap_analysis(
                   r.regulation_id, r.gap_analysis_id, r.gap_severity,
                   r.affected_controls, RegulationTitle(r.regulation_id),
                   r.utcnow)
     IN  IF todo = <<>>
           THEN Upd(p, Finish([r EXCEPT !.http = "created"]))
           ELSE Upd(p, [r EXCEPT !.pc = "gen_570", !.pending = todo])
  /\ UNCHANGED <<store, calls, overlap>>

gen_create_task_raises(p) ==
  /\ At(p, "gen_570")
  /\ Upd(p, Raise(proc[p], "create_task"))
  /\ UNCHANGED <<store, calls, overlap>>

gen_create_task(p) ==
  /\ At(p, "gen_570")
  /\ LET r == [Wrote(proc[p], "tasks") EXCEPT !.pending = Tail(@)]
     IN  /\ tasks' = create_task(Head(proc[p].pending))
         /\ IF r.pending = <<>>
              THEN Upd(p, Finish([r EXCEPT !.http = "created"]))
              ELSE Upd(p, r)
  /\ UNCHANGED <<classifications, gap_analyses, calls, overlap>>

\* ------------------------------- POST /api/gap-analysis/backfill (main.py)
backfill_gap_analyses(p, budget) ==
  Begin(p, [IdleProc EXCEPT !.pc = "bf_430", !.op = "backfill_gap_analyses"],
        budget)

\* client.py:263-265: an exception inside the query is logged and the query
\* answers the empty list.
bf_query_fails(p) ==
  /\ At(p, "bf_430")
  /\ Upd(p, Finish([proc[p] EXCEPT !.http = "results"]))
  /\ UNCHANGED <<store, calls, overlap>>

bf_query(p, limit) ==
  /\ At(p, "bf_430")
  /\ LET pending == get_classifications_needing_gap_analysis(limit)
     IN  IF pending = <<>>
           THEN Upd(p, Finish([proc[p] EXCEPT !.http = "results"]))
           ELSE Upd(p, bf_on_row([proc[p] EXCEPT !.rows = pending]))
  /\ UNCHANGED <<store, calls, overlap>>

\* ------------------------ POST /api/gap-analysis/{regulation_id} (main.py)
run_gap_analysis(p, d, budget) ==
  Begin(p, [IdleProc EXCEPT !.pc = "rga_479", !.op = "run_gap_analysis",
                            !.regulation_id = d], budget)

rga_get_regulation_raises(p) ==
  /\ At(p, "rga_479")
  /\ Upd(p, Raise(proc[p], "get_regulation"))
  /\ UNCHANGED <<store, calls, overlap>>

rga_get_regulation(p) ==
  /\ At(p, "rga_479")
  /\ Upd(p, [proc[p] EXCEPT !.pc = "rga_483"])
  /\ UNCHANGED <<store, calls, overlap>>

rga_get_classification_raises(p) ==
  /\ At(p, "rga_483")
  /\ Upd(p, Raise(proc[p], "get_classification"))
  /\ UNCHANGED <<store, calls, overlap>>

\* main.py:483-494: 400 without a Classification or below the thresholds.
rga_get_classification(p) ==
  /\ At(p, "rga_483")
  /\ LET classification == get_classification(proc[p].regulation_id)
     IN  IF classification = <<>>
           THEN Upd(p, Finish([proc[p] EXCEPT !.http = "400 not classified"]))
           ELSE IF \/ classification[1].relevance_score < 3
                   \/ classification[1].confidence < 70
             THEN Upd(p, Finish([proc[p] EXCEPT !.http = "400 below threshold"]))
             ELSE Upd(p, [proc[p] EXCEPT
                            !.pc = "rga_496",
                            !.relevance_score = classification[1].relevance_score])
  /\ UNCHANGED <<store, calls, overlap>>

rga_get_gap_analysis_raises(p) ==
  /\ At(p, "rga_496")
  /\ Upd(p, Raise(proc[p], "get_gap_analysis"))
  /\ UNCHANGED <<store, calls, overlap>>

rga_get_gap_analysis(p) ==
  /\ At(p, "rga_496")
  /\ IF get_gap_analysis(proc[p].regulation_id) # <<>>
       THEN Upd(p, Finish([proc[p] EXCEPT !.http = "existing"]))
       ELSE Upd(p, [proc[p] EXCEPT !.pc = "rga_500"])
  /\ UNCHANGED <<store, calls, overlap>>

\* The endpoint has no try around the analyzer, the conversion or the insert.
rga_analyze_gaps_raises(p) ==
  /\ At(p, "rga_500")
  /\ Upd(p, Raise(Invoke(proc[p], "analyze_gaps"), "analyze_gaps"))
  /\ UNCHANGED <<store, calls, overlap>>

rga_analyze_gaps_returns(p, result) ==
  /\ At(p, "rga_500")
  /\ LET r == Invoke(proc[p], "analyze_gaps")
     IN  IF result.overall_severity \notin GapSeverity
           THEN Upd(p, Raise(r, "GapAnalysisCreate"))
           ELSE Upd(p, [r EXCEPT !.pc = "rga_521", !.gap_result = result])
  /\ UNCHANGED <<store, calls, overlap>>

rga_create_gap_analysis_raises(p) ==
  /\ At(p, "rga_521")
  /\ Upd(p, Raise(proc[p], "create_gap_analysis"))
  /\ UNCHANGED <<store, calls, overlap>>

rga_create_gap_analysis(p) ==
  /\ At(p, "rga_521")
  /\ LET r == proc[p]
     IN  /\ gap_analyses' = Append(gap_analyses,
              [id |-> Len(gap_analyses) + 1, regulation_id |-> r.regulation_id,
               gap_severity |-> r.gap_result.overall_severity,
               affected_controls |-> r.gap_result.affected_controls])
         /\ Upd(p, Finish([Wrote(r, "gap_analyses") EXCEPT !.http = "created"]))
  /\ UNCHANGED <<classifications, tasks, calls, overlap>>

\* ------------------------------------------------------ metrics (metrics.py)
\* A quotient of Python is an exact fraction in lowest terms; a confidence is
\* counted in hundredths.
RECURSIVE GCD(_, _)
GCD(a, b) == IF b = 0 THEN a ELSE GCD(b, a % b)

Frac(n, d) == LET g == GCD(n, d) IN [num |-> n \div g, den |-> d \div g]

Zero == Frac(0, 1)
One == Frac(1, 1)

FracAdd(x, y) == Frac(x.num * y.den + y.num * x.den, x.den * y.den)
FracMul(x, y) == Frac(x.num * y.num, x.den * y.den)
FracDiv(x, y) == Frac(x.num * y.den, x.den * y.num)

Abs(x) == IF x >= 0 THEN x ELSE 0 - x

FracAbsDiff(x, y) ==
  Frac(Abs(x.num * y.den - y.num * x.den), x.den * y.den)

\* math.sqrt: the root of a fraction of two squares is a fraction, any other
\* root is kept as the root of its argument.
Sqrt(x) ==
  IF \E a \in 0..x.num, b \in 1..x.den : a * a = x.num /\ b * b = x.den
    THEN Frac(CHOOSE a \in 0..x.num : a * a = x.num,
              CHOOSE b \in 1..x.den : b * b = x.den)
    ELSE [sqrt_of |-> x]

RECURSIVE Sum(_)
Sum(s) == IF s = <<>> THEN 0 ELSE Head(s) + Sum(Tail(s))

RECURSIVE FracSum(_)
FracSum(s) == IF s = <<>> THEN Zero ELSE FracAdd(Head(s), FracSum(Tail(s)))

Min(a, b) == IF a <= b THEN a ELSE b

\* set(list)
Range(s) == { s[i] : i \in DOMAIN s }

ValueError == [raised |-> "ValueError"]
Raises(value) == "raised" \in DOMAIN value

\* Faulty variant: the bounds of the tiers are strict.
relevance_to_tier_strict(score) ==
  IF score < 1 THEN "low" ELSE IF score < 3 THEN "medium" ELSE "high"

relevance_to_tier(score) ==
  IF score <= 1 THEN "low" ELSE IF score <= 3 THEN "medium" ELSE "high"

score_relevance(predictions, expected) ==
  IF Len(predictions) # Len(expected) THEN ValueError
  ELSE
    LET n == Len(predictions)
        abs_errors == [i \in 1..n |-> Abs(predictions[i] - expected[i])]
        squared_errors ==
          [i \in 1..n |-> (predictions[i] - expected[i]) * (predictions[i] - expected[i])]
        exact_matches == Cardinality({ i \in 1..n : predictions[i] = expected[i] })
        tier_matches ==
          Cardinality({ i \in 1..n :
            relevance_to_tier(predictions[i]) = relevance_to_tier(expected[i]) })
    IN  IF n = 0
          THEN [mae |-> Zero, rmse |-> Zero, tier_accuracy |-> Zero,
                exact_accuracy |-> Zero]
          ELSE [mae |-> Frac(Sum(abs_errors), n),
                rmse |-> Sqrt(Frac(Sum(squared_errors), n)),
                tier_accuracy |-> Frac(tier_matches, n),
                exact_accuracy |-> Frac(exact_matches, n)]

\* Faulty variant: the false positives and the false negatives are exchanged.
score_multilabel_swapped(predictions, expected) ==
  IF Len(predictions) # Len(expected) THEN ValueError
  ELSE
    LET n == Len(predictions)
        total_tp == Sum([i \in 1..n |-> Cardinality(predictions[i] \cap expected[i])])
        total_fp == Sum([i \in 1..n |-> Cardinality(expected[i] \ predictions[i])])
        total_fn == Sum([i \in 1..n |-> Cardinality(predictions[i] \ expected[i])])
    IN  [precision |-> IF total_tp + total_fp > 0
                         THEN Frac(total_tp, total_tp + total_fp) ELSE Zero,
         recall |-> IF total_tp + total_fn > 0
                      THEN Frac(total_tp, total_tp + total_fn) ELSE Zero,
         f1 |-> IF total_tp > 0
                  THEN Frac(2 * total_tp, 2 * total_tp + total_fp + total_fn)
                  ELSE Zero,
         true_positives |-> total_tp,
         false_positives |-> total_fp,
         false_negatives |-> total_fn]

score_multilabel(predictions, expected) ==
  IF Len(predictions) # Len(expected) THEN ValueError
  ELSE
    LET n == Len(predictions)
        total_tp == Sum([i \in 1..n |-> Cardinality(predictions[i] \cap expected[i])])
        total_fp == Sum([i \in 1..n |-> Cardinality(predictions[i] \ expected[i])])
        total_fn == Sum([i \in 1..n |-> Cardinality(expected[i] \ predictions[i])])
        precision == IF total_tp + total_fp > 0
                       THEN Frac(total_tp, total_tp + total_fp) ELSE Zero
        recall == IF total_tp + total_fn > 0
                    THEN Frac(total_tp, total_tp + total_fn) ELSE Zero
        f1 == IF FracAdd(precision, recall).num > 0
                THEN FracDiv(FracMul(Frac(2, 1), FracMul(precision, recall)),
                             FracAdd(precision, recall))
                ELSE Zero
    IN  [precision |-> precision, recall |-> recall, f1 |-> f1,
         true_positives |-> total_tp,
         false_positives |-> total_fp,
         false_negatives |-> total_fn]

\* Hundredths of (1.0 if corr else 0.0).
Indicator(corr) == IF corr THEN 100 ELSE 0

\* Faulty variant: the Brier score measures the confidence against 0 for a
\* correct case and against 1 for an incorrect one.
score_calibration_inverted(confidences, correct, human_review_pred, human_review_expected) ==
  LET n == Len(confidences)
      m == Min(n, Len(correct))
      h == Min(Len(human_review_pred), Len(human_review_expected))
  IN  IF n = 0
        THEN [brier_score |-> Zero, calibration_error |-> Zero,
              human_review_accuracy |-> Zero]
        ELSE [brier_score |->
                Frac(Sum([i \in 1..m |->
                       (confidences[i] - Indicator(~correct[i]))
                         * (confidences[i] - Indicator(~correct[i]))]),
                     10000 * n),
              calibration_error |-> Zero,
              human_review_accuracy |->
                IF human_review_pred # <<>>
                  THEN Frac(Cardinality({ i \in 1..h :
                              human_review_pred[i] = human_review_expected[i] }),
                            Len(human_review_pred))
                  ELSE Zero]

\* zip stops at the shorter list.  bins (147-150): the cases fall into ten
\* bins by int(conf * 10), the last bin taking confidence 1.0.
score_calibration(confidences, correct, human_review_pred, human_review_expected) ==
  LET n == Len(confidences)
      m == Min(n, Len(correct))
      h == Min(Len(human_review_pred), Len(human_review_expected))
      bin(b) == { i \in 1..m : Min(confidences[i] \div 10, 9) = b - 1 }
      bin_error(b) ==
        LET k == Cardinality(bin(b))
            conf_sum == Sum([j \in 1..m |-> IF j \in bin(b) THEN confidences[j] ELSE 0])
            hits == Cardinality({ j \in bin(b) : correct[j] })
        IN  IF k = 0 THEN Zero
            ELSE FracMul(FracAbsDiff(Frac(conf_sum, 100 * k), Frac(hits, k)),
                         Frac(k, 1))
      calibration_errors == [b \in 1..10 |-> bin_error(b)]
  IN  IF n = 0
        THEN [brier_score |-> Zero, calibration_error |-> Zero,
              human_review_accuracy |-> Zero]
        ELSE [brier_score |->
                Frac(Sum([i \in 1..m |->
                       (confidences[i] - Indicator(correct[i]))
                         * (confidences[i] - Indicator(correct[i]))]),
                     10000 * n),
              calibration_error |->
                FracMul(FracSum(calibration_errors), Frac(1, n)),
              human_review_accuracy |->
                IF human_review_pred # <<>>
                  THEN Frac(Cardinality({ i \in 1..h :
                              human_review_pred[i] = human_review_expected[i] }),
                            Len(human_review_pred))
                  ELSE Zero]

relevance_tolerance == 1

\* metrics.py:184-242: the four score groups, and the details that pair the
\* cases and the predictions by position.
evaluate_classification(test_cases, predictions) ==
  IF Len(test_cases) # Len(predictions) THEN ValueError
  ELSE
    LET n == Len(test_cases)
        error(i) == Abs(predictions[i].relevance_score
                          - test_cases[i].expected.relevance_score)
    IN  [relevance |->
           score_relevance([i \in 1..n |-> predictions[i].relevance_score],
                           [i \in 1..n |-> test_cases[i].expected.relevance_score]),
         pillars |->
           score_multilabel([i \in 1..n |-> Range(predictions[i].bsa_pillars)],
                            [i \in 1..n |-> Range(test_cases[i].expected.bsa_pillars)]),
         categories |->
           score_multilabel([i \in 1..n |-> Range(predictions[i].categories)],
                            [i \in 1..n |-> Range(test_cases[i].expected.categories)]),
         calibration |->
           score_calibration(
             [i \in 1..n |-> predictions[i].confidence],
             [i \in 1..n |-> error(i) <= relevance_tolerance],
             [i \in 1..n |-> predictions[i].requires_human_review],
             [i \in 1..n |-> test_cases[i].expected.requires_human_review]),
         total_cases |-> n,
         details |-> [i \in 1..n |->
                        [document_id |-> test_cases[i].document_id,
                         expected_relevance |-> test_cases[i].expected.relevance_score,
                         predicted_relevance |-> predictions[i].relevance_score,
                         relevance_error |-> error(i),
                         pillar_match |-> Range(predictions[i].bsa_pillars)
                                            = Range(test_cases[i].expected.bsa_pillars),
                         category_match |-> Range(predictions[i].categories)
                                              = Range(test_cases[i].expected.categories),
                         confidence |-> predictions[i].confidence,
                         correct_within_tolerance |->
                           error(i) <= relevance_tolerance]]]

\* ------------------------------------- classify_documents_batch (client.py)
\* Optional values are sequences of length 0 (None) or 1.
BatchResult(id, result, error) == [id |-> id, result |-> result, error |-> error]

\* The truth value Python gives an Optional[str].
Truthy(opt) == opt # <<>> /\ opt[1] # ""

\* client.py:110-112: as_completed hands the futures over in the order in which
\* they complete (completed), and each result goes to the slot of its index.
\* client.py:99: the worker's classification of documents[idx]; of_case
\* remembers which benchmark case's document was classified.
cb_classify_one_returns(p, idx, result) ==
  /\ At(p, "cb_110")
  /\ idx \in proc[p].futures
  /\ LET doc == proc[p].documents[idx]
         tagged == [of_case |-> doc.case_no] @@ result
     IN  Upd(p, [proc[p] EXCEPT
                   !.futures = @ \ {idx},
                   !.completed = Append(@, idx),
                   !.results[idx] = << BatchResult(doc.id, <<tagged>>, <<>>) >>])
  /\ UNCHANGED <<store, calls, overlap>>

\* Faulty variant: the worker's exception reaches future.result() and leaves
\* the batch.
cb_classify_one_uncaught(p, idx, message) ==
  /\ At(p, "cb_110")
  /\ idx \in proc[p].futures
  /\ Upd(p, Raise(proc[p], "classify_document"))
  /\ UNCHANGED <<store, calls, overlap>>

\* client.py:100-102: the exception is caught and its text recorded.
cb_classify_one_raises(p, idx, message) ==
  /\ At(p, "cb_110")
  /\ idx \in proc[p].futures
  /\ LET doc == proc[p].documents[idx]
     IN  Upd(p, [proc[p] EXCEPT
                   !.futures = @ \ {idx},
                   !.completed = Append(@, idx),
                   !.results[idx] = << BatchResult(doc.id, <<>>, <<message>>) >>])
  /\ UNCHANGED <<store, calls, overlap>>

\* Faulty variant: the list is returned in completion order.
cb_returns_completion_order(p) ==
  /\ At(p, "cb_110")
  /\ proc[p].futures = {}
  /\ Upd(p, [proc[p] EXCEPT
                !.pc = "ev_55",
                !.batch_results = [i \in DOMAIN proc[p].completed |->
                                     proc[p].results[proc[p].completed[i]]]])
  /\ UNCHANGED <<store, calls, overlap>>

\* client.py:115: every future has completed.
cb_returns(p) ==
  /\ At(p, "cb_110")
  /\ proc[p].futures = {}
  /\ Upd(p, [proc[p] EXCEPT !.pc = "ev_55", !.batch_results = proc[p].results])
  /\ UNCHANGED <<store, calls, overlap>>

\* ------------------------------------------------ run_evaluation (run_eval.py)
run_evaluation(p, dataset, regulations, budget) ==
  Begin(p, [IdleProc EXCEPT !.pc = "ev_30", !.op = "run_evaluation",
                            !.dataset = dataset, !.remaining = dataset,
                            !.regulations = regulations], budget)

ev_get_regulation_raises(p) ==
  /\ At(p, "ev_30")
  /\ proc[p].remaining # <<>>
  /\ Upd(p, Raise(proc[p], "get_regulation_by_document_id"))
  /\ UNCHANGED <<store, calls, overlap>>

\* run_eval.py:29-43, one benchmark case.
ev_get_regulation(p) ==
  /\ At(p, "ev_30")
  /\ proc[p].remaining # <<>>
  /\ LET r == proc[p]
         tc == Head(r.remaining)
     IN  IF tc.document_id \notin r.regulations
           THEN Upd(p, [r EXCEPT
                          !.remaining = Tail(@),
                          !.skipped = Append(@, [document_id |-> tc.document_id,
                                                 reason |-> "not_in_db"])])
           ELSE Upd(p, [r EXCEPT
                          !.remaining = Tail(@),
                          !.documents = Append(@, [id |-> tc.document_id,
                                                   case_no |-> tc.case_no]),
                          !.test_case_map = (tc.document_id :> tc) @@ @])
  /\ UNCHANGED <<store, calls, overlap>>

\* run_eval.py:48 and client.py:89-108: one empty slot and one future per
\* document.
ev_classify_documents_batch(p) ==
  /\ At(p, "ev_30")
  /\ proc[p].remaining = <<>>
  /\ Upd(p, [proc[p] EXCEPT
                !.pc = "cb_110",
                !.results = [i \in 1..Len(proc[p].documents) |-> <<>>],
                !.futures = 1..Len(proc[p].documents)])
  /\ UNCHANGED <<store, calls, overlap>>

\* run_eval.py:52-67.  Reading a field of a missing result (or of a missing
\* slot) raises AttributeError.
RECURSIVE collect(_, _, _)
collect(batch_results, test_case_map, acc) ==
  IF batch_results = <<>> THEN acc
  ELSE
    LET slot == Head(batch_results)
    IN  IF slot = <<>> THEN [acc EXCEPT !.raised = "AttributeError"]
        ELSE LET br == slot[1]
             IN  IF Truthy(br.error)
                   THEN collect(Tail(batch_results), test_case_map,
                          [acc EXCEPT !.skipped =
                             Append(@, [document_id |-> br.id, reason |-> br.error[1]])])
                   ELSE IF br.result = <<>>
                     THEN [acc EXCEPT !.raised = "AttributeError"]
                     ELSE collect(Tail(batch_results), test_case_map,
                            [acc EXCEPT
                               !.predictions = Append(@,
                                 [relevance_score |-> br.result[1].relevance_score,
                                  confidence |-> br.result[1].confidence,
                                  bsa_pillars |-> br.result[1].bsa_pillars,
                                  categories |-> br.result[1].categories,
                                  requires_human_review |->
                                    br.result[1].requires_human_review,
                                  of_case |-> br.result[1].of_case]),
                               !.valid_cases = Append(@, test_case_map[br.id])])


\* run_eval.py:52-79.
ev_evaluate(p) ==
  /\ At(p, "ev_55")
  /\ LET r == proc[p]
         got == collect(r.batch_results, r.test_case_map,
                        [skipped |-> r.skipped, predictions |-> <<>>,
                         valid_cases |-> <<>>, raised |-> "none"])
         r1 == [r EXCEPT !.skipped = got.skipped,
                         !.predictions = got.predictions,
                         !.valid_cases = got.valid_cases]
     IN  IF got.raised # "none" THEN Upd(p, Raise(r1, got.raised))
         ELSE IF got.valid_cases = <<>> THEN Upd(p, Raise(r1, "RuntimeError"))
         ELSE IF Raises(evaluate_classification(got.valid_cases, got.predictions))
           THEN Upd(p, Raise(r1, "ValueError"))
         ELSE Upd(p, Finish([r1 EXCEPT !.report =
                << evaluate_classification(got.valid_cases, got.predictions) >>]))
  /\ UNCHANGED <<store, calls, overlap>>

\* ------------------------------------------ calls of the metrics (metrics.py)
\* The arguments stay readable with the result.
call_score_relevance(p, predictions, expected, budget) ==
  Begin(p, [IdleProc EXCEPT !.pc = "sr_64", !.op = "score_relevance",
                            !.predictions = predictions,
                            !.expected = expected], budget)

score_relevance_returns(p) ==
  /\ At(p, "sr_64")
  /\ LET r == proc[p]
         scores == score_relevance(r.predictions, r.expected)
     IN  IF Raises(scores)
           THEN Upd(p, Raise(r, "ValueError"))
           ELSE Upd(p, [Finish(r) EXCEPT !.ret = <<scores>>])
  /\ UNCHANGED <<store, calls, overlap>>

call_score_multilabel(p, predictions, expected, budget) ==
  Begin(p, [IdleProc EXCEPT !.pc = "sm_99", !.op = "score_multilabel",
                            !.predictions = predictions,
                            !.expected = expected], budget)

score_multilabel_returns(p) ==
  /\ At(p, "sm_99")
  /\ LET r == proc[p]
         scores == score_multilabel(r.predictions, r.expected)
     IN  IF Raises(scores)
           THEN Upd(p, Raise(r, "ValueError"))
           ELSE Upd(p, [Finish(r) EXCEPT !.ret = <<scores>>])
  /\ UNCHANGED <<store, calls, overlap>>

call_evaluate_classification(p, test_cases, predictions, budget) ==
  Begin(p, [IdleProc EXCEPT !.pc = "ec_190", !.op = "evaluate_classification",
                            !.test_cases = test_cases,
                            !.predictions = predictions], budget)

evaluate_classification_returns(p) ==
  /\ At(p, "ec_190")
  /\ LET r == proc[p]
         evaluation == evaluate_classification(r.test_cases, r.predictions)
     IN  IF Raises(evaluation)
           THEN Upd(p, Raise(r, "ValueError"))
           ELSE Upd(p, [Finish(r) EXCEPT !.report = <<evaluation>>])
  /\ UNCHANGED <<store, calls, overlap>>

\* ------------------------------------- PATCH /api/tasks/{task_id} (main.py)
\* TaskUpdate: every field is optional (a sequence of length 0 or 1).
TaskStatus == {"pending", "in_progress", "completed"}

Optional(S) == {<<>>} \cup { <<x>> : x \in S }

\* update.model_dump(exclude_none=True) applied to the row: the fields that
\* are not None replace the row's.
Updated(row, update) ==
  [f \in DOMAIN row |->
     IF f \in DOMAIN update /\ update[f] # <<>> THEN update[f][1] ELSE row[f]]

update_task(p, task_id, update, budget) ==
  Begin(p, [IdleProc EXCEPT !.pc = "upd_646", !.op = "update_task",
                            !.task_id = task_id, !.update = update], budget)

upd_get_task_raises(p) ==
  /\ At(p, "upd_646")
  /\ Upd(p, Raise(proc[p], "get_task"))
  /\ UNCHANGED <<store, calls, overlap>>

upd_get_task(p) ==
  /\ At(p, "upd_646")
  /\ IF \E i \in DOMAIN tasks : tasks[i].id = proc[p].task_id
       THEN Upd(p, [proc[p] EXCEPT !.pc = "upd_651"])
       ELSE Upd(p, Finish([proc[p] EXCEPT !.http = "404"]))
  /\ UNCHANGED <<store, calls, overlap>>

\* An exception of the store other than ValueError is not caught at 653.
upd_update_task_raises(p) ==
  /\ At(p, "upd_651")
  /\ Upd(p, Raise(proc[p], "update_task"))
  /\ UNCHANGED <<store, calls, overlap>>

\* client.py:335-346: ValueError (400) for an update with no field or no row;
\* otherwise the given fields are written, whatever the row's status is.
upd_update_task(p) ==
  /\ At(p, "upd_651")
  /\ LET r == proc[p]
         data == { f \in DOMAIN r.update : r.update[f] # <<>> }
     IN  IF data = {} \/ ~ \E i \in DOMAIN tasks : tasks[i].id = r.task_id
           THEN /\ Upd(p, Finish([r EXCEPT !.http = "400"]))
                /\ tasks' = tasks
           ELSE /\ tasks' = [i \in DOMAIN tasks |->
                              IF tasks[i].id = r.task_id
                                THEN Updated(tasks[i], r.update)
                                ELSE tasks[i]]
                /\ Upd(p, Finish([Wrote(r, "tasks") EXCEPT !.http = "200"]))
  /\ UNCHANGED <<classifications, gap_analyses, calls, overlap>>

\* -------------------------------------------- calls of the router (router.py)
call_severity_to_priority(p, severity, budget) ==
  Begin(p, [IdleProc EXCEPT !.pc = "stp_38", !.op = "severity_to_priority",
                            !.gap_severity = severity], budget)

\* Finish forgets the locals; the argument stays readable with the result.
severity_to_priority_returns(p) ==
  /\ At(p, "stp_38")
  /\ Upd(p, [Finish(proc[p]) EXCEPT
                !.gap_severity = proc[p].gap_severity,
                !.ret = << severity_to_priority(proc[p].gap_severity) >>])
  /\ UNCHANGED <<store, calls, overlap>>

call_get_primary_owner(p, control_id, budget) ==
  Begin(p, [IdleProc EXCEPT !.pc = "gpo_49", !.op = "get_primary_owner",
                            !.control_id = control_id], budget)

get_primary_owner_returns(p) ==
  /\ At(p, "gpo_49")
  /\ Upd(p, [Finish(proc[p]) EXCEPT
                !.ret = << get_primary_owner(proc[p].control_id) >>])
  /\ UNCHANGED <<store, calls, overlap>>

call_generate_tasks_from_gap_analysis(p, gap_severity, affected_controls, now, budget) ==
  Begin(p, [IdleProc EXCEPT !.pc = "gt_74",
                            !.op = "generate_tasks_from_gap_analysis",
                            !.regulation_id = "reg-1", !.gap_analysis_id = 1,
                            !.gap_severity = gap_severity,
                            !.affected_controls = affected_controls,
                            !.utcnow = now], budget)

generate_tasks_from_gap_analysis_returns(p) ==
  /\ At(p, "gt_74")
  /\ LET r == proc[p]
     IN  Upd(p, [Finish(r) EXCEPT
                   !.gap_severity = r.gap_severity,
                   !.affected_controls = r.affected_controls,
                   !.ret = << generate_tasks_from_gap_analysis(
                                r.regulation_id, r.gap_analysis_id, r.gap_severity,
                                r.affected_controls, RegulationTitle(r.regulation_id),
                   r.utcnow) >>])
  /\ UNCHANGED <<store, calls, overlap>>

\* ------------------------------------------------------------ specifications
Quiescent == \A q \in Procs : proc[q].pc = "idle"

Call(p, documents, budget) ==
  \/ \E d \in documents : classify_and_store(p, d, budget)
  \/ \E d \in documents : trigger_gap_analysis(p, d, budget)
  \/ \E g \in 1..budget : trigger_task_generation(p, g, budget)
  \/ \E g \in 1..budget : generate_tasks_for_gap_analysis(p, g, budget)

Step(p, classifier_outputs, analyzer_outputs) ==
  \/ cas_get_classification_raises(p)
  \/ cas_existing(p)
  \/ cas_not_existing(p)
  \/ cas_classify_document_raises(p)
  \/ \E result \in classifier_outputs : cas_classify_document_returns(p, result)
  \/ cas_create_classification_raises(p)
  \/ cas_create_classification(p)
  \/ tga_get_gap_analysis_raises(p)
  \/ tga_existing(p)
  \/ tga_not_existing(p)
  \/ tga_analyze_gaps_raises(p)
  \/ \E result \in analyzer_outputs : tga_analyze_gaps_returns(p, result)
  \/ tga_create_gap_analysis_raises(p)
  \/ tga_create_gap_analysis(p)
  \/ ttg_get_tasks_raises(p)
  \/ ttg_existing(p)
  \/ ttg_not_existing(p)
  \/ ttg_create_task_raises(p)
  \/ ttg_create_task(p)
  \/ gen_get_gap_analysis_raises(p)
  \/ gen_not_found(p)
  \/ gen_found(p)
  \/ gen_get_tasks_raises(p)
  \/ gen_existing(p)
  \/ gen_not_existing(p)
  \/ gen_get_regulation_raises(p)
  \/ gen_get_regulation(p)
  \/ gen_create_task_raises(p)
  \/ gen_create_task(p)

\* The single-document path is synchronous: one caller, one call at a time.
\* One document is followed through the pipeline, with every answer the
\* externals can give.
Caller == CHOOSE p \in Procs : \A q \in Procs : p <= q
Document == "reg-1"

Next ==
  \E p \in {Caller} :
    Call(p, {Document}, MaxCalls) \/ Step(p, ClassificationResult, GapAnalysisResult)

Spec == Init /\ [][Next]_vars

\* Callers on several threads working on the same document: calls overlap and
\* their steps interleave.  The externals answer from a narrower repertoire:
\* a classification that passes the gate and a gap analysis with two gaps.
ConcClassificationResult ==
  { r \in ClassificationResult :
      /\ r.relevance_score = 3
      /\ r.confidence = 70
      /\ r.bsa_pillars = <<"training">> }

ConcGapAnalysisResult ==
  { r \in GapAnalysisResult :
      /\ r.overall_severity = "critical"
      /\ Len(r.affected_controls) = 2
      /\ \A i \in 1..2 : r.affected_controls[i].control_id = "IC-01" }

\* A call is served by the first idle thread of the pool.
FirstIdle(p) == \A q \in Procs : q < p => proc[q].pc # "idle"

NextConc ==
  \E p \in Procs :
    \/ FirstIdle(p) /\ Call(p, {Document}, MaxConcCalls)
    \/ Step(p, ConcClassificationResult, ConcGapAnalysisResult)

SpecConc == Init /\ [][NextConc]_vars

\* The API over two documents: classification, the backfill endpoint, the
\* gap-analysis endpoint and the task update, one request at a time.  The classifier answers on
\* either side of each threshold; the analyzer answers one gap, with a valid
\* or an invalid severity.
MaxApiCalls == 3
Limits == {1, 2}
ApiDocuments == {"reg-1", "reg-2"}

ApiClassificationResult ==
  { r \in ClassificationResult :
      /\ <<r.relevance_score, r.confidence>> \in {<<3, 70>>, <<2, 99>>, <<5, 69>>}
      /\ r.bsa_pillars = <<"training">> }

ApiGapAnalysisResult ==
  { r \in GapAnalysisResult :
      /\ r.overall_severity \in {"critical", "Critical"}
      /\ Len(r.affected_controls) = 1
      /\ r.affected_controls[1].control_id = "IC-01" }

TaskUpdates ==
  [status : Optional(TaskStatus), assigned_team : Optional({"Internal Audit"}),
   priority : {<<>>}, due_date : {<<>>}]

ApiCall(p) ==
  \/ \E d \in ApiDocuments : classify_and_store(p, d, MaxApiCalls)
  \/ backfill_gap_analyses(p, MaxApiCalls)
  \/ \E d \in ApiDocuments : run_gap_analysis(p, d, MaxApiCalls)
  \/ \E task_id \in 1..(Len(tasks) + 1), update \in TaskUpdates :
       update_task(p, task_id, update, MaxApiCalls)

\* With one request at a time the existence checks inside the triggers never
\* find a row (the caller has just looked), so those branches are not steps
\* of this specification.
ApiStep(p) ==
  \/ cas_get_classification_raises(p)
  \/ cas_existing(p)
  \/ cas_not_existing(p)
  \/ cas_classify_document_raises(p)
  \/ \E result \in ApiClassificationResult : cas_classify_document_returns(p, result)
  \/ cas_create_classification_raises(p)
  \/ cas_create_classification(p)
  \/ tga_get_gap_analysis_raises(p)
  \/ tga_not_existing(p)
  \/ tga_analyze_gaps_raises(p)
  \/ \E result \in ApiGapAnalysisResult : tga_analyze_gaps_returns(p, result)
  \/ tga_create_gap_analysis_raises(p)
  \/ tga_create_gap_analysis(p)
  \/ ttg_get_tasks_raises(p)
  \/ ttg_not_existing(p)
  \/ ttg_create_task_raises(p)
  \/ ttg_create_task(p)
  \/ bf_query_fails(p)
  \/ \E limit \in Limits : bf_query(p, limit)
  \/ rga_get_regulation_raises(p)
  \/ rga_get_regulation(p)
  \/ rga_get_classification_raises(p)
  \/ rga_get_classification(p)
  \/ rga_get_gap_analysis_raises(p)
  \/ rga_get_gap_analysis(p)
  \/ rga_analyze_gaps_raises(p)
  \/ \E result \in ApiGapAnalysisResult : rga_analyze_gaps_returns(p, result)
  \/ rga_create_gap_analysis_raises(p)
  \/ rga_create_gap_analysis(p)
  \/ upd_get_task_raises(p)
  \/ upd_get_task(p)
  \/ upd_update_task_raises(p)
  \/ upd_update_task(p)

NextApi == \E p \in {Caller} : ApiCall(p) \/ ApiStep(p)

SpecApi == Init /\ [][NextApi]_vars

\* The backfill endpoint called again and again, after and between the
\* classifications of two documents.  A repeated backfill request is not
\* counted by calls: the store, which only classify_and_store and the
\* backfill fill, has at most one Classification and one GapAnalysis per
\* document.
backfill_again(p) ==
  /\ proc[p].pc = "idle"
  /\ Upd(p, [IdleProc EXCEPT !.pc = "bf_430", !.op = "backfill_gap_analyses"])
  /\ UNCHANGED <<store, calls, overlap>>

BackfillStep(p) ==
  \/ cas_get_classification_raises(p)
  \/ cas_existing(p)
  \/ cas_not_existing(p)
  \/ cas_classify_document_raises(p)
  \/ \E result \in ApiClassificationResult : cas_classify_document_returns(p, result)
  \/ cas_create_classification_raises(p)
  \/ cas_create_classification(p)
  \/ tga_get_gap_analysis_raises(p)
  \/ tga_not_existing(p)
  \/ tga_analyze_gaps_raises(p)
  \/ \E result \in ApiGapAnalysisResult : tga_analyze_gaps_returns(p, result)
  \/ tga_create_gap_analysis_raises(p)
  \/ tga_create_gap_analysis(p)
  \/ ttg_get_tasks_raises(p)
  \/ ttg_not_existing(p)
  \/ ttg_create_task_raises(p)
  \/ ttg_create_task(p)
  \/ bf_query_fails(p)
  \/ \E limit \in Limits : bf_query(p, limit)

NextBackfill ==
  \E p \in {Caller} :
    \/ \E d \in ApiDocuments : classify_and_store(p, d, MaxApiCalls)
    \/ backfill_again(p)
    \/ BackfillStep(p)

\* The analyzer answers with a severity the schema accepts.
analyze_gaps_succeeds(p) ==
  \E result \in ApiGapAnalysisResult :
    /\ result.overall_severity \in GapSeverity
    /\ tga_analyze_gaps_returns(p, result)

\* The endpoint is requested again and again and a running request goes on
\* (weak fairness); the store and the Gap Analyzer, asked again and again,
\* eventually answer without failing (strong fairness of each successful
\* answer).  The limit of a request stays the client's choice.
BackfillFairness ==
  /\ WF_vars(backfill_again(Caller))
  /\ WF_vars(BackfillStep(Caller))
  /\ SF_vars(\E limit \in Limits : bf_query(Caller, limit))
  /\ SF_vars(tga_not_existing(Caller))
  /\ SF_vars(analyze_gaps_succeeds(Caller))
  /\ SF_vars(tga_create_gap_analysis(Caller))

SpecBackfill == Init /\ [][NextBackfill]_vars /\ BackfillFairness

\* The evaluation run: a benchmark of up to MaxCases cases over two document
\* identifiers (two cases may name the same one), any part of which is in the
\* regulations table; the classifier answers or raises, with or without a
\* message, and the workers complete in any order.  The script runs the
\* evaluation once (run_eval.py:82-85).
MaxCases == 2
EvalDocumentIds == {"doc-1", "doc-2"}
ExpectedScores == {0, 5}
ErrorMessages == {"timeout", ""}

\* loader.py:14-35.  The benchmark of the run expects one score of two for
\* each case; the classifier answers with one classification.
ExpectedClassification(score) ==
  [relevance_score |-> score, confidence |-> 90, bsa_pillars |-> <<"training">>,
   categories |-> <<"aml">>, requires_human_review |-> FALSE]

TestCase(case_no, document_id, expected) ==
  [case_no |-> case_no, document_id |-> document_id, expected |-> expected]

EvalClassificationResult ==
  { [relevance_score |-> 3, confidence |-> 70, bsa_pillars |-> <<"training">>,
     categories |-> <<"aml">>, requires_human_review |-> FALSE] }

Benchmarks ==
  UNION { { [i \in 1..n |-> TestCase(i, f[i][1], ExpectedClassification(f[i][2]))] :
              f \in [1..n -> EvalDocumentIds \X ExpectedScores] } :
          n \in 0..MaxCases }

NextEval ==
  \E p \in {Caller} :
    \/ \E dataset \in Benchmarks, regulations \in SUBSET EvalDocumentIds :
         run_evaluation(p, dataset, regulations, 1)
    \/ ev_get_regulation_raises(p)
    \/ ev_get_regulation(p)
    \/ ev_classify_documents_batch(p)
    \/ \E idx \in 1..MaxCases, result \in EvalClassificationResult :
         cb_classify_one_returns(p, idx, result)
    \/ \E idx \in 1..MaxCases, message \in ErrorMessages :
         cb_classify_one_raises(p, idx, message)
    \/ cb_returns(p)
    \/ ev_evaluate(p)

SpecEval == Init /\ [][NextEval]_vars

\* The metrics as a library: each function is called once on lists of up to
\* MaxScored entries, of equal or of different lengths.  Scores range over
\* 0..5, label sets over two labels; a benchmark case expects a score of 4
\* with a confidence of 0.9 or 1.0, no pillar or one, and one category; a
\* prediction is one of these classifications or one with a score of 1.
MaxScored == 2
Labels == {"aml", "sanctions"}

MetricExpected ==
  [relevance_score : {4}, confidence : {90, 100},
   bsa_pillars : { <<>>, <<"training">> }, categories : { <<"aml">> },
   requires_human_review : {FALSE}]

MetricPredicted ==
  [relevance_score : {1, 4}, confidence : {90, 100},
   bsa_pillars : { <<>>, <<"training">> }, categories : { <<"aml">> },
   requires_human_review : {FALSE}]

MetricCases ==
  { [i \in DOMAIN es |-> TestCase(i, "doc-1", es[i])] :
      es \in SeqsUpTo(MetricExpected, MaxScored) }

MetricsCall(p) ==
  /\ calls < 1
  /\ \/ \E predictions, expected \in SeqsUpTo(RelevanceScore, MaxScored) :
          call_score_relevance(p, predictions, expected, 1)
     \/ \E predictions, expected \in SeqsUpTo(SUBSET Labels, MaxScored) :
          call_score_multilabel(p, predictions, expected, 1)
     \/ \E test_cases \in MetricCases,
           predictions \in SeqsUpTo(MetricPredicted, MaxScored) :
          call_evaluate_classification(p, test_cases, predictions, 1)

MetricsStep(p) ==
  \/ score_relevance_returns(p)
  \/ score_multilabel_returns(p)
  \/ evaluate_classification_returns(p)

NextMetrics == \E p \in {Caller} : MetricsCall(p) \/ MetricsStep(p)

SpecMetrics == Init /\ [][NextMetrics]_vars

\* The router as a library: its functions are called on their own, on
\* severity strings in every letter case and on strings that name no level.
MaxRouterCalls == 2
Levels == {"critical", "high", "medium", "low"}

\* The spellings of a lowercase word in every letter case.
RECURSIVE Spellings(_)
Spellings(word) ==
  IF word = "" THEN {""}
  ELSE LET c == SubSeq(word, 1, 1)
       IN  { h \o t : h \in {c, UpperChar(c)},
                      t \in Spellings(SubSeq(word, 2, Len(word))) }

OtherStrings == {"", "urgent", "severe", "lowest", "hi gh", "low ", "n/a", "3"}

SeverityStrings == UNION { Spellings(w) : w \in Levels } \cup OtherStrings

\* Gap lists over two catalog ids, an unknown id and an empty id; the clock
\* reads one of two days.
RouterSeverities == {"critical", "HIGH", "Medium", "low", "urgent"}
RouterControlIds == {"IC-01", "TR-03", "XX-99", ""}
Clock == {0, 100}

\* get_primary_owner is asked for every control of the catalog, and for ids
\* the catalog does not have.
OwnerControlIds == { CONTROLS[i].id : i \in DOMAIN CONTROLS } \cup {"XX-99", ""}

RouterControlGaps ==
  { [i \in DOMAIN ids |-> ControlGap(ids[i])] :
      ids \in SeqsUpTo(RouterControlIds, MaxGaps) }

RouterCall(p) ==
  \/ \E severity \in SeverityStrings :
       call_severity_to_priority(p, severity, MaxRouterCalls)
  \/ \E control_id \in OwnerControlIds :
       call_get_primary_owner(p, control_id, MaxRouterCalls)
  \/ \E gap_severity \in RouterSeverities, affected_controls \in RouterControlGaps,
        now \in Clock :
       call_generate_tasks_from_gap_analysis(p, gap_severity, affected_controls,
                                             now, MaxRouterCalls)

RouterStep(p) ==
  \/ severity_to_priority_returns(p)
  \/ get_primary_owner_returns(p)
  \/ generate_tasks_from_gap_analysis_returns(p)

NextRouter == \E p \in {Caller} : RouterCall(p) \/ RouterStep(p)

SpecRouter == Init /\ [][NextRouter]_vars

\* ================================================================ claims
NumClassifications(d) ==
  Cardinality({ i \in DOMAIN classifications : classifications[i].regulation_id = d })

NumGapAnalyses(d) ==
  Cardinality({ i \in DOMAIN gap_analyses : gap_analyses[i].regulation_id = d })

NumTasksOfGap(g) ==
  Cardinality({ i \in DOMAIN tasks : tasks[i].gap_analysis_id = g })

NumTasksOfDocument(d) ==
  Cardinality({ i \in DOMAIN tasks : tasks[i].regulation_id = d })

\* The step is one of thread p.
Moved(p) == proc'[p] # proc[p]

Done(p, op) == proc[p].pc = "idle" /\ proc[p].op = op

\* C1: once a Classification is persisted for a document, the document never
\* has a second one, and a later classify_and_store call for it ends at its
\* existence check: the Classifier and the Gap Analyzer are not invoked, the
\* store is left unchanged, and the value returned is False (when the
\* existence query itself raises, the call raises with the same frame).
C1_Idempotent ==
  /\ [](NumClassifications(Document) <= 1)
  /\ [][\A p \in Procs :
          (/\ Moved(p)
           /\ proc[p].pc = "cas_19"
           /\ NumClassifications(proc[p].regulation_id) >= 1)
          => /\ proc'[p].pc = "idle"
             /\ proc'[p].invoked = {}
             /\ store' = store
             /\ proc'[p].raised = "none" => proc'[p].ret_cas = "False"]_vars

C1_Witness ==
  \E p \in Procs :
    /\ Done(p, "classify_and_store")
    /\ proc[p].ret_cas = "False"
    /\ proc[p].invoked = {}
    /\ NumClassifications(proc[p].regulation_id) = 1

\* C2: when classify_and_store persists the Classification of an unclassified
\* document, the row holds the classifier's score and confidence, and the
\* gap-analysis trigger is invoked iff relevance_score >= 3 and
\* confidence >= 0.7 (70 hundredths); the trigger is never invoked by a call
\* that has not persisted its Classification.
C2_Gate ==
  /\ [](\A p \in Procs :
          "trigger_gap_analysis" \in proc[p].invoked
            => "classifications" \in proc[p].wrote)
  /\ [][\A p \in Procs :
          (/\ Moved(p)
           /\ proc[p].pc = "cas_41"
           /\ proc'[p].raised = "none")
          => LET res == proc[p].result
                 triggers == res.relevance_score >= 3 /\ res.confidence >= 70
             IN  /\ Len(classifications') = Len(classifications) + 1
                 /\ classifications'[Len(classifications')].relevance_score
                      = res.relevance_score
                 /\ classifications'[Len(classifications')].confidence
                      = res.confidence
                 /\ ("trigger_gap_analysis" \in proc'[p].invoked) <=> triggers
                 /\ (proc'[p].pc = "tga_76") <=> triggers
                 /\ (proc'[p].pc = "idle" /\ proc'[p].ret_cas = "True")
                      <=> ~triggers]_vars

C2_Witness ==
  \E p \in Procs :
    /\ Done(p, "classify_and_store")
    /\ "trigger_gap_analysis" \in proc[p].invoked
    /\ Len(classifications) = 1
    /\ classifications[1].relevance_score = 3
    /\ classifications[1].confidence = 70

\* C3: when the Classifier call raises in classify_and_store (or its output
\* fails the conversion to a Classification), the exception leaves the call,
\* the store is unchanged and holds no Classification, GapAnalysis or Task of
\* the document; and a classify_and_store call on a document without a
\* Classification goes on to invoke the Classifier.
C3_ClassifierFailure ==
  [][\A p \in Procs :
       Moved(p) =>
         /\ (proc[p].pc = "cas_24" /\ proc'[p].pc # "cas_41")
              => /\ proc'[p].pc = "idle"
                 /\ proc'[p].raised # "none"
                 /\ proc'[p].ret_cas = "none"
                 /\ store' = store
                 /\ NumClassifications(proc[p].regulation_id) = 0
                 /\ NumGapAnalyses(proc[p].regulation_id) = 0
                 /\ NumTasksOfDocument(proc[p].regulation_id) = 0
         /\ (/\ proc[p].pc = "cas_19"
             /\ NumClassifications(proc[p].regulation_id) = 0
             /\ proc'[p].raised = "none")
              => proc'[p].pc = "cas_24"
         /\ proc[p].pc = "cas_24"
              => "classify_document" \in proc'[p].invoked]_vars

C3_Witness ==
  \E p \in Procs :
    /\ Done(p, "classify_and_store")
    /\ proc[p].raised \in {"classify_document", "ClassificationCreate"}
    /\ "classify_document" \in proc[p].invoked
    /\ NumClassifications(proc[p].regulation_id) = 0

\* C4 (as claimed): under any interleaving of callers the store holds at most
\* one Classification and at most one GapAnalysis for the document.
C4_AtMostOne ==
  /\ NumClassifications(Document) <= 1
  /\ NumGapAnalyses(Document) <= 1

\* C4 (amended): the same, for a document on which no classify_and_store or
\* gap-analysis-trigger call began while another such call was running.
C4_AtMostOneWithoutOverlap ==
  Document \notin overlap
    => /\ NumClassifications(Document) <= 1
       /\ NumGapAnalyses(Document) <= 1

C4_Witness ==
  /\ Document \notin overlap
  /\ NumClassifications(Document) = 1
  /\ NumGapAnalyses(Document) = 1
  /\ \E p \in Procs :
       \/ Done(p, "classify_and_store") /\ proc[p].ret_cas = "False"
       \/ Done(p, "trigger_gap_analysis") /\ proc[p].why_tga = "exists"

\* C5: in _trigger_gap_analysis on a document with no GapAnalysis, when the
\* Gap Analyzer call, the conversion of its result or create_gap_analysis
\* raises, the trigger returns False, nothing is raised, the store is
\* unchanged, and the document has no GapAnalysis and no Task.
C5_GapAnalysisFailureIsolated ==
  /\ [](\A p \in Procs :
          proc[p].pc \in {"tga_84", "tga_105"}
            => NumGapAnalyses(proc[p].regulation_id) = 0)
  /\ [][\A p \in Procs :
          (/\ Moved(p)
           /\ proc[p].pc \in {"tga_84", "tga_105"}
           /\ proc'[p].pc \notin {"tga_105", "ttg_134"})
          => /\ proc'[p].pc = "idle"
             /\ proc'[p].ret_tga = "False"
             /\ proc'[p].raised = "none"
             /\ store' = store
             /\ NumGapAnalyses(proc[p].regulation_id) = 0
             /\ NumTasksOfDocument(proc[p].regulation_id) = 0]_vars

C5_Witness ==
  \E p \in Procs :
    /\ Done(p, "trigger_gap_analysis")
    /\ "analyze_gaps" \in proc[p].invoked
    /\ proc[p].ret_tga = "False"
    /\ proc[p].raised = "none"
    /\ NumGapAnalyses(proc[p].regulation_id) = 0

\* C6 (as claimed): a classify_and_store call that has persisted its
\* Classification returns True without raising, and the Classification stays.
C6_ClassifyReturnsTrue ==
  \A p \in Procs :
    (Done(p, "classify_and_store") /\ "classifications" \in proc[p].wrote)
      => /\ proc[p].ret_cas = "True"
         /\ proc[p].raised = "none"
         /\ NumClassifications(proc[p].regulation_id) >= 1

\* C7: when a GapAnalysis exists for the document, _trigger_gap_analysis ends
\* at its existence check: the Gap Analyzer is not invoked, task generation is
\* not triggered, and classifications, gap analyses and tasks are unchanged.
C7_TriggerNoOp ==
  [][\A p \in Procs :
       (/\ Moved(p)
        /\ proc[p].pc = "tga_76"
        /\ NumGapAnalyses(proc[p].regulation_id) >= 1)
       => /\ proc'[p].pc = "idle"
          /\ store' = store
          /\ proc'[p].invoked \cap {"analyze_gaps", "trigger_task_generation",
                                    "generate_tasks_from_gap_analysis"} = {}
          /\ proc'[p].raised = "none" => proc'[p].ret_tga = "False"]_vars

C7_Witness ==
  \E p \in Procs :
    /\ Done(p, "trigger_gap_analysis")
    /\ proc[p].why_tga = "exists"
    /\ proc[p].invoked = {}
    /\ NumGapAnalyses(proc[p].regulation_id) = 1

\* C8: when at least one task is persisted for a GapAnalysis id, a
\* task-generation trigger for that id (_trigger_task_generation or the
\* generate-tasks endpoint) ends at its existence check: the router is not
\* invoked and the tasks are unchanged.
C8_NoSecondGeneration ==
  [][\A p \in Procs :
       (/\ Moved(p)
        /\ proc[p].pc \in {"ttg_134", "gen_545"}
        /\ NumTasksOfGap(proc[p].gap_analysis_id) >= 1)
       => /\ proc'[p].pc = "idle"
          /\ tasks' = tasks
          /\ "generate_tasks_from_gap_analysis" \notin proc'[p].invoked]_vars

C8_Witness ==
  \E p \in Procs :
    /\ NumTasksOfGap(proc[p].gap_analysis_id) >= 1
    /\ proc[p].wrote = {}
    /\ \/ Done(p, "trigger_task_generation") /\ proc[p].why_ttg = "exists"
       \/ Done(p, "generate_tasks_for_gap_analysis")
            /\ proc[p].http = "already_exists"

\* C9 (as claimed): in every quiescent state, each GapAnalysis has either no
\* task or exactly one task for each of its ControlGaps whose control_id is in
\* the catalog, in order.
CatalogIds == { CONTROLS[i].id : i \in DOMAIN CONTROLS }

ResolvableIds(affected_controls) ==
  LET gaps == SelectSeq(affected_controls, LAMBDA g : g.control_id \in CatalogIds)
  IN  [i \in DOMAIN gaps |-> gaps[i].control_id]

TaskControlIds(g) ==
  LET mine == SelectSeq(tasks, LAMBDA t : t.gap_analysis_id = g)
  IN  [i \in DOMAIN mine |-> mine[i].control_id]

C9_AllOrNothing ==
  Quiescent =>
    \A i \in DOMAIN gap_analyses :
      \/ TaskControlIds(gap_analyses[i].id) = <<>>
      \/ TaskControlIds(gap_analyses[i].id)
           = ResolvableIds(gap_analyses[i].affected_controls)

\* C10 (as claimed): for _trigger_gap_analysis and _trigger_task_generation,
\* the value a call returns when the artifact already exists differs from the
\* value a call returns when the external call or the persistence failed.
C10_Distinguishable ==
  \A p, q \in Procs :
    /\ (proc[p].why_tga = "exists" /\ proc[q].why_tga = "failed")
         => proc[p].ret_tga # proc[q].ret_tga
    /\ (proc[p].why_ttg = "exists" /\ proc[q].why_ttg = "failed")
         => proc[p].ret_ttg # proc[q].ret_ttg

\* s is an initial segment of t.
IsPrefix(s, t) == Len(s) <= Len(t) /\ SubSeq(t, 1, Len(s)) = s

\* C11: no step of the pipeline deletes or replaces a persisted
\* Classification, GapAnalysis or Task (every table only grows at its end),
\* every persisted GapAnalysis belongs to a document that has a
\* Classification, and every persisted Task references a persisted GapAnalysis
\* of its document.
C11_ForwardOnly ==
  /\ [][/\ IsPrefix(classifications, classifications')
        /\ IsPrefix(gap_analyses, gap_analyses')
        /\ IsPrefix(tasks, tasks')]_vars
  /\ [](\A i \in DOMAIN gap_analyses :
          NumClassifications(gap_analyses[i].regulation_id) >= 1)
  /\ [](\A i \in DOMAIN tasks :
          \E j \in DOMAIN gap_analyses :
            /\ gap_analyses[j].id = tasks[i].gap_analysis_id
            /\ gap_analyses[j].regulation_id = tasks[i].regulation_id)

C11_Witness ==
  /\ Len(classifications) >= 1
  /\ Len(gap_analyses) >= 1
  /\ Len(tasks) >= 2
  /\ \E p \in Procs : proc[p].pc = "idle" /\ proc[p].op # "none" /\ proc[p].wrote = {}

\* C12: in every state reached through classify_and_store, the backfill
\* endpoint and the gap-analysis endpoint, every persisted GapAnalysis belongs
\* to a document with a persisted Classification of relevance_score >= 3 and
\* confidence >= 0.7 (70 hundredths).
C12_GapAnalysisOnlyWhenGated ==
  \A i \in DOMAIN gap_analyses :
    \E j \in DOMAIN classifications :
      /\ classifications[j].regulation_id = gap_analyses[i].regulation_id
      /\ classifications[j].relevance_score >= 3
      /\ classifications[j].confidence >= 70

\* The backfill has analysed a gated document, and a request on a document
\* classified below the gate has ended without a GapAnalysis.
C12_Witness ==
  /\ \E p \in Procs :
       /\ Done(p, "backfill_gap_analyses")
       /\ "gap_analyses" \in proc[p].wrote
       /\ proc[p].succeeded = 1
  /\ \E j \in DOMAIN classifications :
       /\ classifications[j].relevance_score < 3 \/ classifications[j].confidence < 70
       /\ NumGapAnalyses(classifications[j].regulation_id) = 0
  /\ Len(gap_analyses) >= 1

\* C13: when classify_documents_batch returns, the list has one result per
\* input document, none missing, and the result at index i carries the id of
\* the document at index i (and is the classification of that document),
\* whatever the order in which the workers completed.
C13_BatchInInputOrder ==
  \A p \in Procs :
    proc[p].pc = "ev_55" =>
      /\ Len(proc[p].batch_results) = Len(proc[p].documents)
      /\ \A i \in DOMAIN proc[p].batch_results :
           /\ proc[p].batch_results[i] # <<>>
           /\ proc[p].batch_results[i][1].id = proc[p].documents[i].id
           /\ proc[p].batch_results[i][1].result # <<>>
                => proc[p].batch_results[i][1].result[1].of_case
                     = proc[p].documents[i].case_no

\* Two documents with different ids, the second completed first.
C13_Witness ==
  \E p \in Procs :
    /\ proc[p].pc = "ev_55"
    /\ proc[p].completed = <<2, 1>>
    /\ proc[p].documents[1].id # proc[p].documents[2].id
    /\ Len(proc[p].batch_results) = 2

\* C14: no completion of a worker makes classify_documents_batch raise, and
\* when it returns every slot is filled: a document whose classification
\* raised has result None and an error recorded (not None), every other
\* document has its classification result and error None.
C14_BatchIsolatesFailures ==
  /\ [][\A p \in Procs :
          (Moved(p) /\ proc[p].pc = "cb_110")
            => proc'[p].raised = "none" /\ proc'[p].pc \in {"cb_110", "ev_55"}]_vars
  /\ [][\A p \in Procs : \A i \in DOMAIN proc[p].results :
          (proc[p].pc = "cb_110" /\ proc[p].results[i] # <<>>)
            => proc'[p].results = <<>> \/ proc'[p].results[i] = proc[p].results[i]]_vars
  /\ [](\A p \in Procs :
          proc[p].pc = "ev_55" =>
            /\ DOMAIN proc[p].batch_results = DOMAIN proc[p].documents
            /\ \A i \in DOMAIN proc[p].batch_results :
                 /\ proc[p].batch_results[i] # <<>>
                 /\ LET br == proc[p].batch_results[i][1]
                    IN  \/ br.result = <<>> /\ br.error # <<>>
                        \/ br.result # <<>> /\ br.error = <<>>)

\* One document failed and its sibling was classified.
C14_Witness ==
  \E p \in Procs :
    /\ proc[p].pc = "ev_55"
    /\ \E i, j \in DOMAIN proc[p].batch_results :
         /\ proc[p].batch_results[i] # <<>> /\ proc[p].batch_results[j] # <<>>
         /\ proc[p].batch_results[i][1].result = <<>>
         /\ proc[p].batch_results[i][1].error # <<>>
         /\ proc[p].batch_results[j][1].result # <<>>
         /\ proc[p].batch_results[j][1].error = <<>>

\* The batch items that have a classification result.
Evaluable(r) ==
  { i \in DOMAIN r.batch_results :
      r.batch_results[i] # <<>> /\ r.batch_results[i][1].result # <<>> }

\* C19 (as claimed): a run_evaluation call that got its batch back raises if
\* and only if no case is evaluable (every case was unresolvable or failed
\* classification), and when it does not raise it returns a report.
C19_RaisesIffNothingEvaluable ==
  \A p \in Procs :
    (/\ Done(p, "run_evaluation")
     /\ proc[p].raised # "get_regulation_by_document_id")
      => /\ (proc[p].raised # "none") <=> (Evaluable(proc[p]) = {})
         /\ proc[p].raised = "none" => proc[p].report # <<>>

\* C20 (as claimed): when run_evaluation returns, every benchmark case is
\* exactly once in the skip list or in the report's details, and every
\* evaluated prediction is paired with the benchmark case whose document was
\* classified.
C20_CasesPairedWithOwnPrediction ==
  \A p \in Procs :
    (Done(p, "run_evaluation") /\ proc[p].report # <<>>)
      => LET r == proc[p]
         IN  /\ Len(r.skipped) + Len(r.report[1].details) = Len(r.dataset)
             /\ \A i \in DOMAIN r.valid_cases :
                  r.valid_cases[i].case_no = r.predictions[i].of_case
             /\ \A i, j \in DOMAIN r.valid_cases :
                  i # j => r.valid_cases[i].case_no # r.valid_cases[j].case_no

\* C15: severity_to_priority returns a priority for every severity string:
\* the level of the same name for critical, high, medium and low spelled in
\* any letter case, and medium for every other string.
C15_SeverityToPriorityTotal ==
  \A p \in Procs :
    Done(p, "severity_to_priority") =>
      /\ proc[p].raised = "none"
      /\ Len(proc[p].ret) = 1
      /\ proc[p].ret[1] \in Levels
      /\ \A w \in Levels :
           proc[p].gap_severity \in Spellings(w) => proc[p].ret[1] = w
      /\ (\A w \in Levels : proc[p].gap_severity \notin Spellings(w))
           => proc[p].ret[1] = "medium"

C15_Witness ==
  \E p \in Procs :
    /\ Done(p, "severity_to_priority")
    /\ proc[p].gap_severity = "CrItIcAl"
    /\ proc[p].ret = <<"critical">>

\* The days the claim gives for a severity string.
ClaimedDays(severity) ==
  CASE severity \in Spellings("critical") -> 7
    [] severity \in Spellings("high") -> 14
    [] severity \in Spellings("low") -> 60
    [] OTHER -> 30

\* C16: all tasks returned by one generate_tasks_from_gap_analysis call carry
\* the same priority and the same due date, and the due date is the time of
\* the call plus 7, 14, 30 or 60 days for a critical, high, medium or low
\* severity (30 days for a severity that names no level).
C16_OneDueDatePerBatch ==
  \A p \in Procs :
    Done(p, "generate_tasks_from_gap_analysis") =>
      LET out == proc[p].ret[1]
      IN  /\ \A i, j \in DOMAIN out :
               out[i].priority = out[j].priority /\ out[i].due_date = out[j].due_date
          /\ \A i \in DOMAIN out :
               out[i].due_date = proc[p].utcnow + ClaimedDays(proc[p].gap_severity)

C16_Witness ==
  \E p \in Procs :
    /\ Done(p, "generate_tasks_from_gap_analysis")
    /\ proc[p].gap_severity = "HIGH"
    /\ proc[p].utcnow = 100
    /\ Len(proc[p].ret[1]) = 2
    /\ proc[p].ret[1][1].due_date = 114
    /\ proc[p].ret[1][2].due_date = 114

\* C17: generate_tasks_from_gap_analysis returns, without raising, exactly one
\* task per input ControlGap whose control_id is in the catalog, with
\* multiplicity and in input order; a gap with an unknown id gives no task and
\* does not end the batch, so every returned task's control_id is a catalog id.
C17_OneTaskPerResolvableGap ==
  \A p \in Procs :
    Done(p, "generate_tasks_from_gap_analysis") =>
      LET out == proc[p].ret[1]
      IN  /\ proc[p].raised = "none"
          /\ [i \in DOMAIN out |-> out[i].control_id]
               = ResolvableIds(proc[p].affected_controls)
          /\ \A i \in DOMAIN out : out[i].control_id \in CatalogIds

\* Two gaps naming the same control give two tasks; an unknown id between
\* known ones is skipped.
C17_Witness ==
  /\ \E p \in Procs :
       /\ Done(p, "generate_tasks_from_gap_analysis")
       /\ Len(proc[p].affected_controls) = 2
       /\ proc[p].affected_controls[1].control_id = "XX-99"
       /\ proc[p].affected_controls[2].control_id = "TR-03"
       /\ Len(proc[p].ret[1]) = 1
       /\ proc[p].ret[1][1].control_id = "TR-03"

StatusRank(status) ==
  CASE status = "pending" -> 1
    [] status = "in_progress" -> 2
    [] status = "completed" -> 3

\* C18 (as claimed): no step changes a persisted task's status backwards
\* along pending, in_progress, completed.
C18_StatusForwardOnly ==
  [][\A i \in DOMAIN tasks :
       i \in DOMAIN tasks'
         => StatusRank(tasks'[i].status) >= StatusRank(tasks[i].status)]_vars

\* C23 (as claimed): a _trigger_gap_analysis call that has persisted a
\* GapAnalysis returns True, whatever fails afterwards in task generation.
C23_PersistedMeansTrue ==
  \A p \in Procs :
    (Done(p, "trigger_gap_analysis") /\ "gap_analyses" \in proc[p].wrote)
      => proc[p].ret_tga = "True"

\* C24: _trigger_gap_analysis called directly on a document with no
\* GapAnalysis goes on to the Gap Analyzer whenever its existence query
\* answers, whatever the relevance score; and when the analyzer's result
\* converts and create_gap_analysis succeeds, the GapAnalysis is persisted for
\* the document, for every relevance_score in 0..5.
C24_DirectTriggerUngated ==
  [][\A p \in Procs :
       (Moved(p) /\ proc[p].op = "trigger_gap_analysis")
       => /\ (/\ proc[p].pc = "tga_76"
              /\ NumGapAnalyses(proc[p].regulation_id) = 0
              /\ proc'[p].raised = "none")
             => /\ proc'[p].pc = "tga_84"
                /\ proc'[p].relevance_score = proc[p].relevance_score
          /\ (proc[p].pc = "tga_105" /\ proc'[p].pc = "ttg_134")
             => /\ NumGapAnalyses(proc[p].regulation_id)' = 1
                /\ "analyze_gaps" \in proc[p].invoked
                /\ proc[p].relevance_score \in RelevanceScore]_vars

C24_Witness ==
  \E p \in Procs :
    /\ Done(p, "trigger_gap_analysis")
    /\ proc[p].relevance_score < GAP_ANALYSIS_RELEVANCE_THRESHOLD
    /\ "analyze_gaps" \in proc[p].invoked
    /\ "gap_analyses" \in proc[p].wrote
    /\ proc[p].ret_tga = "True"
    /\ NumGapAnalyses(proc[p].regulation_id) = 1

\* C27: every persisted task has the priority that is the gap_severity of the
\* GapAnalysis it references, and every persisted gap_severity and priority
\* is one of the four lowercase levels, whatever overall_severity string the
\* Gap Analyzer returned.
C27_PriorityIsSeverity ==
  /\ \A i \in DOMAIN gap_analyses : gap_analyses[i].gap_severity \in GapSeverity
  /\ \A i \in DOMAIN tasks :
       /\ tasks[i].priority \in TaskPriority
       /\ get_gap_analysis_by_id(tasks[i].gap_analysis_id) # <<>>
       /\ tasks[i].priority
            = get_gap_analysis_by_id(tasks[i].gap_analysis_id)[1].gap_severity

C27_Witness ==
  \E i \in DOMAIN tasks :
    /\ tasks[i].priority = "critical"
    /\ get_gap_analysis_by_id(tasks[i].gap_analysis_id)[1].gap_severity = "critical"

\* C29 (as claimed): when run_evaluation has got its batch back, it never
\* reads a field of a missing result, every batch item without a result is in
\* the skip list with its document id, and the predictions are exactly those
\* of the items that have a result.
C29_FailedItemsSkipped ==
  \A p \in Procs :
    (/\ Done(p, "run_evaluation")
     /\ proc[p].batch_results # <<>>)
      => LET r == proc[p]
         IN  /\ r.raised # "AttributeError"
             /\ \A i \in DOMAIN r.batch_results :
                  r.batch_results[i][1].result = <<>>
                    => \E k \in DOMAIN r.skipped :
                         /\ r.skipped[k].document_id = r.batch_results[i][1].id
                         /\ r.skipped[k].reason # "not_in_db"
             /\ Len(r.predictions) = Cardinality(Evaluable(r))

\* C28: for every control of the catalog, get_primary_owner returns the first
\* entry of the control's typical_owners ('BSA Officer' if the list is empty),
\* a task generated for the control is assigned to that team, and the team
\* is one of VALID_TEAMS.
C28_OwnerIsFirstValidTeam ==
  \A p \in Procs :
    /\ Done(p, "get_primary_owner") =>
         \A i \in DOMAIN CONTROLS :
           CONTROLS[i].id = proc[p].control_id =>
             /\ proc[p].ret = << IF CONTROLS[i].typical_owners = <<>>
                                   THEN "BSA Officer"
                                   ELSE Head(CONTROLS[i].typical_owners) >>
             /\ proc[p].ret[1] \in VALID_TEAMS
    /\ Done(p, "generate_tasks_from_gap_analysis") =>
         \A k \in DOMAIN proc[p].ret[1] :
           \A i \in DOMAIN CONTROLS :
             CONTROLS[i].id = proc[p].ret[1][k].control_id =>
               /\ proc[p].ret[1][k].assigned_team
                    = (IF CONTROLS[i].typical_owners = <<>>
                         THEN "BSA Officer"
                         ELSE Head(CONTROLS[i].typical_owners))
               /\ proc[p].ret[1][k].assigned_team \in VALID_TEAMS

C28_Witness ==
  \E p \in Procs :
    /\ Done(p, "get_primary_owner")
    /\ proc[p].control_id = "CDD-01"
    /\ proc[p].ret = <<"AML Operations">>

\* sub occurs in s.
Contains(s, sub) ==
  \E i \in 1..(Len(s) - Len(sub) + 1) : SubSeq(s, i, i + Len(sub) - 1) = sub

\* The texts of a persisted task name the regulation, the control and its
\* pillar.
TaskTextNamesControl(t) ==
  LET control == get_control_by_id(t.control_id)[1]
  IN  /\ Contains(t.description, RegulationTitle(t.regulation_id))
      /\ Contains(t.title, control.name)
      /\ Contains(t.description, control.name)
      /\ Contains(t.description, Title(Replace(control.pillar, "_", " ")))

\* C25 (as claimed): the title and description of every task the pipeline
\* persisted embed the regulation title, the control name, the pillar, and,
\* from a ControlGap of its GapAnalysis with the task's control_id, what the
\* Gap Analyzer supplied as the kind of gap (gap_description) and as the
\* recommendation (remediation_action).
C25_TaskTextEmbedsGap ==
  \A i \in DOMAIN tasks :
    LET t == tasks[i]
        gaps == get_gap_analysis_by_id(t.gap_analysis_id)[1].affected_controls
    IN  /\ TaskTextNamesControl(t)
        /\ \E k \in DOMAIN gaps :
             /\ gaps[k].control_id = t.control_id
             /\ Contains(t.title \o t.description, gaps[k].gap_description)
             /\ Contains(t.description, gaps[k].remediation_action)

\* The number of (case, label) pairs of two equal-length lists of label sets
\* with the label in the first set of the case and not in the second, or in
\* both.
CountBoth(xs, ys) ==
  Cardinality({ c \in (DOMAIN xs) \X Labels : c[2] \in xs[c[1]] /\ c[2] \in ys[c[1]] })

CountOnly(xs, ys) ==
  Cardinality({ c \in (DOMAIN xs) \X Labels : c[2] \in xs[c[1]] /\ c[2] \notin ys[c[1]] })

\* The fraction q is the quotient n / d.
IsQuotient(q, n, d) == q.num * d = n * q.den

\* C21: for equal-length lists of predicted and expected label sets,
\* score_multilabel does not raise and returns TP, FP, FN as the sums over the
\* cases of |pred & exp|, |pred - exp| and |exp - pred|, precision TP/(TP+FP),
\* recall TP/(TP+FN) and F1 their harmonic mean 2TP/(2TP+FP+FN), each 0 when
\* its denominator is 0; predicted {aml} against expected {aml, sanctions}
\* gives TP 1, FP 0, FN 1, precision 1, recall 1/2, F1 2/3.
C21_MultilabelScores ==
  \A p \in Procs :
    (/\ proc[p].pc = "idle"
     /\ proc[p].op = "score_multilabel"
     /\ Len(proc[p].predictions) = Len(proc[p].expected))
      => /\ proc[p].raised = "none"
         /\ Len(proc[p].ret) = 1
         /\ LET out == proc[p].ret[1]
                TP == CountBoth(proc[p].predictions, proc[p].expected)
                FP == CountOnly(proc[p].predictions, proc[p].expected)
                FN == CountOnly(proc[p].expected, proc[p].predictions)
            IN  /\ out.true_positives = TP
                /\ out.false_positives = FP
                /\ out.false_negatives = FN
                /\ IF TP + FP = 0 THEN out.precision = Zero
                                  ELSE IsQuotient(out.precision, TP, TP + FP)
                /\ IF TP + FN = 0 THEN out.recall = Zero
                                  ELSE IsQuotient(out.recall, TP, TP + FN)
                /\ IF TP = 0 THEN out.f1 = Zero
                             ELSE IsQuotient(out.f1, 2 * TP, 2 * TP + FP + FN)
                /\ (proc[p].predictions = << {"aml"} >>
                      /\ proc[p].expected = << {"aml", "sanctions"} >>)
                     => /\ TP = 1 /\ FP = 0 /\ FN = 1
                        /\ out.precision = One
                        /\ out.recall = [num |-> 1, den |-> 2]
                        /\ out.f1 = [num |-> 2, den |-> 3]

C21_Witness ==
  \E p \in Procs :
    /\ Done(p, "score_multilabel")
    /\ proc[p].predictions = << {"aml"} >>
    /\ proc[p].expected = << {"aml", "sanctions"} >>
    /\ proc[p].ret[1].recall = [num |-> 1, den |-> 2]
    /\ proc[p].ret[1].f1 = [num |-> 2, den |-> 3]

\* The tiers as the specification gives them.
ClaimedTier(s) ==
  IF s <= 1 THEN "low" ELSE IF 2 <= s /\ s <= 3 THEN "medium" ELSE "high"

\* C26: for equal-length lists of scores in 0..5, score_relevance does not
\* raise and returns MAE = mean |p - e|, exact_accuracy = the fraction of
\* cases with p = e and tier_accuracy = the fraction of cases whose two scores
\* are in the same tier (low up to 1, medium 2 to 3, high from 4); for zero
\* cases all four metrics are 0.
C26_RelevanceScores ==
  \A p \in Procs :
    (/\ proc[p].pc = "idle"
     /\ proc[p].op = "score_relevance"
     /\ Len(proc[p].predictions) = Len(proc[p].expected))
      => /\ proc[p].raised = "none"
         /\ Len(proc[p].ret) = 1
         /\ LET out == proc[p].ret[1]
                ps == proc[p].predictions
                es == proc[p].expected
                n == Len(ps)
            IN  IF n = 0
                  THEN /\ out.mae = Zero /\ out.rmse = Zero
                       /\ out.tier_accuracy = Zero /\ out.exact_accuracy = Zero
                  ELSE /\ IsQuotient(out.mae, Sum([i \in 1..n |-> Abs(ps[i] - es[i])]), n)
                       /\ IsQuotient(out.exact_accuracy,
                                     Cardinality({ i \in 1..n : ps[i] = es[i] }), n)
                       /\ IsQuotient(out.tier_accuracy,
                            Cardinality({ i \in 1..n :
                              ClaimedTier(ps[i]) = ClaimedTier(es[i]) }), n)

C26_Witness ==
  \E p \in Procs :
    /\ Done(p, "score_relevance")
    /\ proc[p].predictions = <<1, 5>>
    /\ proc[p].expected = <<0, 3>>
    /\ proc[p].ret[1].mae = [num |-> 3, den |-> 2]
    /\ proc[p].ret[1].exact_accuracy = Zero
    /\ proc[p].ret[1].tier_accuracy = [num |-> 1, den |-> 2]

\* A finished evaluate_classification call on a non-empty benchmark in which
\* each prediction equals the expected classification of its case.
PerfectEvaluation(p) ==
  /\ Done(p, "evaluate_classification")
  /\ proc[p].test_cases # <<>>
  /\ Len(proc[p].predictions) = Len(proc[p].test_cases)
  /\ \A i \in DOMAIN proc[p].test_cases :
       proc[p].predictions[i] = proc[p].test_cases[i].expected

\* What a perfect evaluation reports apart from the Brier score: no error,
\* full accuracy, and precision = recall = F1 = 1 for a label kind with TP > 0.
PerfectScores(report) ==
  /\ report.relevance.mae = Zero
  /\ report.relevance.rmse = Zero
  /\ report.relevance.exact_accuracy = One
  /\ report.relevance.tier_accuracy = One
  /\ \A scores \in {report.pillars, report.categories} :
       /\ scores.false_positives = 0 /\ scores.false_negatives = 0
       /\ scores.true_positives > 0
            => scores.precision = One /\ scores.recall = One /\ scores.f1 = One
       /\ scores.true_positives = 0
            => scores.precision = Zero /\ scores.recall = Zero /\ scores.f1 = Zero

\* C22 (as claimed): a perfect evaluation reports MAE 0, RMSE 0, exact and
\* tier accuracy 1, pillar and category precision = recall = F1 = 1 whenever
\* TP > 0, and a Brier score of 0.
C22_PerfectBrierZero ==
  \A p \in Procs :
    PerfectEvaluation(p) =>
      /\ proc[p].raised = "none"
      /\ PerfectScores(proc[p].report[1])
      /\ proc[p].report[1].calibration.brier_score = Zero

\* C22 (amended): a perfect evaluation reports MAE 0, RMSE 0, exact and tier
\* accuracy 1, pillar and category precision = recall = F1 = 1 whenever
\* TP > 0, and as Brier score the mean of (1 - confidence)^2, which is 0 only
\* when every confidence is 1.0.
C22_PerfectBrierOfConfidence ==
  \A p \in Procs :
    PerfectEvaluation(p) =>
      LET report == proc[p].report[1]
          cs == [i \in DOMAIN proc[p].predictions |-> proc[p].predictions[i].confidence]
      IN  /\ proc[p].raised = "none"
          /\ PerfectScores(report)
          /\ IsQuotient(report.calibration.brier_score,
                        Sum([i \in DOMAIN cs |-> (100 - cs[i]) * (100 - cs[i])]),
                        10000 * Len(cs))
          /\ (report.calibration.brier_score = Zero)
               <=> (\A i \in DOMAIN cs : cs[i] = 100)

C22_Witness ==
  \E p \in Procs :
    /\ PerfectEvaluation(p)
    /\ Len(proc[p].test_cases) = 2
    /\ proc[p].predictions[1].confidence = 90
    /\ proc[p].predictions[2].confidence = 100
    /\ proc[p].predictions[1].bsa_pillars = <<"training">>
    /\ proc[p].report[1].pillars.f1 = One
    /\ proc[p].report[1].calibration.brier_score = [num |-> 1, den |-> 200]

\* The persisted Classifications that meet the gate and have no GapAnalysis.
Unanalysed ==
  { i \in DOMAIN classifications :
      /\ passes_gate(classifications[i])
      /\ get_gap_analysis(classifications[i].regulation_id) = <<>> }

\* C30 (as claimed): when the backfill endpoint is requested again and again,
\* with any limit from 1, and the Gap Analyzer and the store eventually
\* succeed, then from some time on no persisted Classification that meets the
\* gate is without a GapAnalysis.
C30_BackfillCompletes == <>[](Unanalysed = {})

====
